---- MODULE Spec2Model ----
(***************************************************************************)
(* A model of epub_chapter_extractor.py (class EPUBExtractor).             *)
(*                                                                         *)
(* Text is modelled as a sequence of tokens.  A token is a string naming   *)
(* one character ("C", " ", "NL"), one character outside ASCII by its code *)
(* point ("U7AE0" is the ideograph for "chapter"), one tag of the markup   *)
(* ("<p>", "</p>"), one path component of an href ("OEBPS/", "c1.html",    *)
(* "#"), or one run of ordinary text of a known length ("T9000").  TokLen  *)
(* gives the number of characters a token stands for, so that offsets and  *)
(* lengths are those the program computes on the real string.              *)
(***************************************************************************)
EXTENDS Integers, Sequences, FiniteSets, TLC

VARIABLES
    \* ---- navigation resolver (parse_navigation_file) ----
    exists,          \* which navigation files exist under base_dir
    docs,            \* the content of each navigation file, once it is read
    spine_items,     \* self.spine_items, with the content of each file
    pc,              \* the position in parse_navigation_file
    invoked,         \* the strategies whose parser has been called, in order
    outputs,         \* the marker list each called parser returned
    returned,        \* the list parse_navigation_file returned
    \* ---- one chapter (extract_chapter_with_subchapters) ----
    chapter_files,          \* the files of the chapter: [exists, html]
    extract_subchapters,    \* self.extract_subchapters
    split_no_subchapters,   \* self.split_no_subchapters
    show_furigana,          \* self.show_furigana
    combined_html,          \* the markup of the chapter's files, concatenated
    subchapters,            \* what find_subchapters_in_html returned
    chapter_text,           \* html_to_text(combined_html)
    written,                \* the files written, in order: [name, body]
    split_calls,            \* how often split_and_save_text was called
    chPc,                   \* the position in extract_chapter_with_subchapters
    \* ---- one book (extract_chapters) ----
    opf,                    \* the package description: [container, found, parses, items, itemrefs]
    disk,                   \* the paths under base_dir that exist
    manifest_items,         \* manifest_items of parse_opf_file, by id
    chapters,               \* self.chapters
    resources,              \* self.resources, by id
    bkPc,                   \* the position in extract_chapters
    raised,                 \* the exception extract_chapters raised, "" when none
    marker_i,               \* the markers create_chapter_text_files has handled
    file_sets,              \* what get_chapter_files returned, per marker
    index_written,          \* whether index.txt was written
    \* ---- a batch (bulk_extract_epubs) ----
    epub_files,             \* the books found, sorted
    book_i,                 \* the books attempted so far
    attempted,              \* the books handed to an extractor, in order
    successful_extractions,
    failed_extractions,
    \* ---- the input of one run (extract_chapters) ----
    input,                  \* what epub_path names: [kind, zip_ok, at_temp]
    is_extracted_folder,    \* self.is_extracted_folder
    temp_dir,               \* whether output_dir/temp_extracted exists
    source_dir,             \* self.source_dir: "None", "input" or "temp"
    cleaned                 \* whether cleanup has been called

navVars == <<exists, docs, spine_items, pc, invoked, outputs, returned>>

chapVars == <<chapter_files, extract_subchapters, split_no_subchapters, show_furigana, combined_html,
              subchapters, chapter_text, written, split_calls, chPc>>

bookVars == <<opf, disk, manifest_items, chapters, resources, bkPc, raised, marker_i,
              file_sets, index_written>>

bulkVars == <<epub_files, book_i, attempted, successful_extractions, failed_extractions>>

runVars == <<input, is_extracted_folder, temp_dir, source_dir, cleaned>>

vars == <<exists, docs, spine_items, pc, invoked, outputs, returned,
          chapter_files, extract_subchapters, split_no_subchapters, show_furigana,
          combined_html, subchapters, chapter_text, written, split_calls, chPc,
          opf, disk, manifest_items, chapters, resources, bkPc, raised, marker_i,
          file_sets, index_written,
          epub_files, book_i, attempted, successful_extractions, failed_extractions,
          input, is_extracted_folder, temp_dir, source_dir, cleaned>>

(***************************************************************************)
(* Sequences and strings                                                   *)
(***************************************************************************)
Range(s) == {s[i] : i \in 1..Len(s)}

Min(S) == CHOOSE x \in S : \A y \in S : x <= y

Max(S) == CHOOSE x \in S : \A y \in S : x >= y

\* p in s (Python's substring test)
Contains(s, p) ==
    \E i \in 1..(Len(s) - Len(p) + 1) : SubSeq(s, i, i + Len(p) - 1) = p

\* s.startswith(p)
StartsWith(s, p) == Len(s) >= Len(p) /\ SubSeq(s, 1, Len(p)) = p

UpperToLower ==
    [c \in {"A","B","C","D","E","G","H","I","L","N","O","P","R","S","T","U","V"} |->
        CASE c = "A" -> "a" [] c = "B" -> "b" [] c = "C" -> "c" [] c = "D" -> "d"
          [] c = "E" -> "e" [] c = "G" -> "g" [] c = "H" -> "h" [] c = "I" -> "i"
          [] c = "L" -> "l" [] c = "N" -> "n" [] c = "O" -> "o" [] c = "P" -> "p"
          [] c = "R" -> "r" [] c = "S" -> "s" [] c = "T" -> "t" [] c = "U" -> "u"
          [] c = "V" -> "v"]

LowerChar(c) == IF c \in DOMAIN UpperToLower THEN UpperToLower[c] ELSE c

\* str.lower()
Lower(s) == [i \in 1..Len(s) |-> LowerChar(s[i])]

\* str.isspace() of one character; "IDE" is U+3000, the ideographic space
IsSpace(c) == c \in {" ", "TAB", "NL", "IDE"}

\* str.strip()
Strip(s) ==
    LET keep == {i \in 1..Len(s) : ~IsSpace(s[i])}
    IN  IF keep = {} THEN <<>> ELSE SubSeq(s, Min(keep), Max(keep))

AsciiDigits == {"0","1","2","3","4","5","6","7","8","9"}

FullWidthDigits == {"F0","F1","F2","F3","F4","F5","F6","F7","F8","F9"}

\* \d of a str pattern: any Unicode decimal digit
IsDigit(c) == c \in AsciiDigits \cup FullWidthDigits

\* the class [一二三四五六七八九十\d]
KanjiDigits ==
    {"U4E00","U4E8C","U4E09","U56DB","U4E94","U516D","U4E03","U516B","U4E5D","U5341"}

IsKanjiOrDigit(c) == c \in KanjiDigits \/ IsDigit(c)

(***************************************************************************)
(* Markers                                                                 *)
(***************************************************************************)
\* Python's None, for a marker without an anchor
None == <<"None">>

\* href.split('#', 1): the file part
FilePart(href) ==
    IF "#" \in Range(href)
    THEN SubSeq(href, 1, Min({i \in 1..Len(href) : href[i] = "#"}) - 1)
    ELSE href

\* href.split('#', 1): the anchor, None without '#'
AnchorPart(href) ==
    IF "#" \in Range(href)
    THEN SubSeq(href, Min({i \in 1..Len(href) : href[i] = "#"}) + 1, Len(href))
    ELSE None

\* if file_part.startswith('OEBPS/'): file_part = file_part[6:]
StripOEBPS(file_part) ==
    IF StartsWith(file_part, <<"OEBPS/">>) THEN Tail(file_part) ELSE file_part

MakeMarker(text, href) ==
    [title |-> Strip(text), file |-> StripOEBPS(FilePart(href)),
     anchor |-> AnchorPart(href), href |-> href]

\* the labels of non-chapter items: 表紙, 目次, 奥付, cover, toc, contents
NavDenylist ==
    << <<"U8868","U7D19">>, <<"U76EE","U6B21">>, <<"U5965","U4ED8">>,
       <<"c","o","v","e","r">>, <<"t","o","c">>,
       <<"c","o","n","t","e","n","t","s">> >>

\* the denylist test without text.lower()
IsDeniedCaseSensitive(text) ==
    \E k \in 1..Len(NavDenylist) : Contains(text, NavDenylist[k])

\* any(x in text.lower() for x in [...])
IsDenied(text) ==
    \E k \in 1..Len(NavDenylist) : Contains(Lower(text), NavDenylist[k])

\* chapter_markers.append({...}) for each link kept, in order
MarkersOf(links) ==
    [i \in 1..Len(links) |-> MakeMarker(links[i].text, links[i].href)]

(***************************************************************************)
(* _parse_navigation_xhtml                                                 *)
(* A navigation document is [parses, navs]: whether ET.parse succeeds, and *)
(* its nav elements in document order, each [type, links]; a link is       *)
(* [text, href], <<>> standing for a missing (None) or empty value.        *)
(***************************************************************************)
\* the nav typed "toc", else the first nav, else 0 (none)
TocNav(navs) ==
    LET typed == {i \in 1..Len(navs) : navs[i].type = "toc"}
    IN  IF typed # {} THEN Min(typed) ELSE IF navs # <<>> THEN 1 ELSE 0

\* if href and text: ... unless the text is denylisted
KeepNavLink(link) == link.href # <<>> /\ link.text # <<>> /\ ~IsDenied(link.text)

\* the parser without its try/except: what it has read before the error stays
ParseNavigationXhtmlNoCatch(doc) ==
    IF TocNav(doc.navs) = 0 THEN <<>>
    ELSE MarkersOf(SelectSeq(doc.navs[TocNav(doc.navs)].links, KeepNavLink))

ParseNavigationXhtml(doc) ==
    IF ~doc.parses THEN <<>>
    ELSE IF TocNav(doc.navs) = 0 THEN <<>>
    ELSE MarkersOf(SelectSeq(doc.navs[TocNav(doc.navs)].links, KeepNavLink))

(***************************************************************************)
(* _parse_toc_ncx                                                          *)
(* An NCX is [parses, points]: its navPoints in document order, each       *)
(* [text, href] from navLabel/text and content/@src.                       *)
(***************************************************************************)
KeepNavPoint(point) ==
    point.href # <<>> /\ point.text # <<>> /\ ~IsDenied(point.text)

ParseTocNcx(doc) ==
    IF ~doc.parses THEN <<>> ELSE MarkersOf(SelectSeq(doc.points, KeepNavPoint))

(***************************************************************************)
(* _is_chapter_link and the patterns of the embedded-TOC heuristic         *)
(***************************************************************************)
\* 第 ... 章 with one or more of [一二三四五六七八九十\d] between: 第[...]+章
MatchDaiShou(s) ==
    \E i \in 1..Len(s) : \E j \in (i + 2)..Len(s) :
        /\ s[i] = "U7B2C"
        /\ s[j] = "U7AE0"
        /\ \A k \in (i + 1)..(j - 1) : IsKanjiOrDigit(s[k])

\* Chapter\s*\d+ under re.IGNORECASE
MatchChapterNum(s) ==
    LET l == Lower(s)
        w == <<"c","h","a","p","t","e","r">>
    IN  \E i \in 1..(Len(l) - Len(w) + 1) : \E j \in (i + Len(w))..Len(l) :
            /\ SubSeq(l, i, i + Len(w) - 1) = w
            /\ \A k \in (i + Len(w))..(j - 1) : IsSpace(l[k])
            /\ IsDigit(l[j])

\* プロローグ
Purorogu == <<"U30D7","U30ED","U30ED","U30FC","U30B0">>

\* エピローグ
Epirogu == <<"U30A8","U30D4","U30ED","U30FC","U30B0">>

\* あとがき
Atogaki == <<"U3042","U3068","U304C","U304D">>

\* 終\s*章
MatchShuuShou(s) ==
    \E i \in 1..Len(s) : \E j \in (i + 1)..Len(s) :
        /\ s[i] = "U7D42"
        /\ s[j] = "U7AE0"
        /\ \A k \in (i + 1)..(j - 1) : IsSpace(s[k])

\* [一二三四五六七八九十\d]+章
MatchNumShou(s) ==
    \E j \in 2..Len(s) : s[j] = "U7AE0" /\ IsKanjiOrDigit(s[j - 1])

\* skip_items: 表紙, 目次, 奥付, cover, toc, contents, 解説
SkipItems == NavDenylist \o << <<"U89E3","U8AAC">> >>

IsSkipped(text) ==
    \E k \in 1..Len(SkipItems) : Contains(Lower(text), SkipItems[k])

IsChapterLink(text) ==
    /\ text # <<>>
    /\ ~IsSkipped(text)
    /\ \/ MatchDaiShou(text)
       \/ MatchChapterNum(text)
       \/ Contains(text, Purorogu)
       \/ Contains(text, Epirogu)
       \/ Contains(text, Atogaki)
       \/ MatchShuuShou(text)
       \/ MatchNumShou(text)

(***************************************************************************)
(* _has_chapter_links                                                      *)
(* A content document is [exists, wellformed, contentsWord, links]:        *)
(* whether the file is on disk, whether ET.fromstring parses it, whether   *)
(* the word CONTENTS occurs outside its links, and its <a> elements, each  *)
(* [text, href] with plain text inside.                                    *)
(***************************************************************************)
\* the first pattern, after <a ... href="..." ...>[^<]*
LinkPattern1(text) ==
    \/ MatchDaiShou(text)
    \/ MatchChapterNum(text)
    \/ Contains(text, Purorogu)
    \/ Contains(text, Epirogu)
    \/ Contains(text, Atogaki)

\* the second pattern: 章|chapter|prologue|epilogue, under re.IGNORECASE
LinkPattern2(text) ==
    \/ Contains(text, <<"U7AE0">>)
    \/ Contains(Lower(text), <<"c","h","a","p","t","e","r">>)
    \/ Contains(Lower(text), <<"p","r","o","l","o","g","u","e">>)
    \/ Contains(Lower(text), <<"e","p","i","l","o","g","u","e">>)

\* len(re.findall(pattern, content)) summed over the two patterns
ChapterCount(links) ==
    Cardinality({i \in 1..Len(links) : links[i].href # <<>> /\ LinkPattern1(links[i].text)})
    + Cardinality({i \in 1..Len(links) : links[i].href # <<>> /\ LinkPattern2(links[i].text)})

\* the acceptance threshold: at least 3 chapter-like links
MinChapterLinks == 3

HasChapterLinks(links) == ChapterCount(links) >= MinChapterLinks

\* 'CONTENTS' in content
HasContentsWord(doc) ==
    \/ doc.contentsWord
    \/ \E i \in 1..Len(doc.links) :
           Contains(doc.links[i].text, <<"C","O","N","T","E","N","T","S">>)

(***************************************************************************)
(* _extract_chapter_links, _extract_chapter_links_regex                    *)
(***************************************************************************)
\* if href and text and self._is_chapter_link(text), text stripped first
KeepChapterLink(link) ==
    link.href # <<>> /\ Strip(link.text) # <<>> /\ IsChapterLink(Strip(link.text))

\* the regex fallback: href="([^"]*)" needs the attribute, the text is stripped
KeepChapterLinkRegex(link) ==
    link.href # <<>> /\ IsChapterLink(Strip(link.text))

ExtractChapterLinks(doc) ==
    IF doc.wellformed
    THEN MarkersOf(SelectSeq(doc.links, KeepChapterLink))
    ELSE MarkersOf(SelectSeq(doc.links, KeepChapterLinkRegex))

(***************************************************************************)
(* _deduplicate_and_sort_markers                                           *)
(***************************************************************************)
IsContent(item) == item.media_type \in {"application/xhtml+xml", "text/html"}

\* Path(href).name
PathName(href) == IF href = <<>> THEN <<>> ELSE <<href[Len(href)]>>

\* the key of a marker never seen in the spine
NotInSpine == 999

\* seen / unique_markers: the first marker of each (file, anchor)
Deduplicate(markers) ==
    LET first == {i \in 1..Len(markers) :
                     \A j \in 1..(i - 1) :
                         <<markers[j].file, markers[j].anchor>>
                             # <<markers[i].file, markers[i].anchor>>}
        IsFirst(i) == i \in first
        idx == SelectSeq([i \in 1..Len(markers) |-> i], IsFirst)
    IN  [k \in 1..Len(idx) |-> markers[idx[k]]]

\* spine_order.get(filename, 999); the dict keeps the last index of a name,
\* 0-based
SortKey(marker, spine) ==
    LET at == {i \in 1..Len(spine) : PathName(spine[i].href) = marker.file}
    IN  IF at = {} THEN NotInSpine ELSE Max(at) - 1

\* list.sort(key=sort_key): stable
RECURSIVE SortMarkers(_, _)
SortMarkers(markers, spine) ==
    IF markers = <<>> THEN <<>>
    ELSE LET least == Min({SortKey(markers[i], spine) : i \in 1..Len(markers)})
             at == Min({i \in 1..Len(markers) : SortKey(markers[i], spine) = least})
         IN  <<markers[at]>>
             \o SortMarkers(SubSeq(markers, 1, at - 1)
                            \o SubSeq(markers, at + 1, Len(markers)), spine)

DeduplicateAndSortMarkers(markers, spine) == SortMarkers(Deduplicate(markers), spine)

(***************************************************************************)
(* _parse_embedded_toc                                                     *)
(***************************************************************************)
\* the markers one spine item contributes
EmbeddedMarkersOf(item) ==
    IF IsContent(item) /\ item.doc.exists
       /\ (HasContentsWord(item.doc) \/ HasChapterLinks(item.doc.links))
    THEN ExtractChapterLinks(item.doc)
    ELSE <<>>

RECURSIVE PooledMarkers(_)
PooledMarkers(spine) ==
    IF spine = <<>> THEN <<>>
    ELSE EmbeddedMarkersOf(Head(spine)) \o PooledMarkers(Tail(spine))

ParseEmbeddedToc(spine) ==
    IF PooledMarkers(spine) # <<>>
    THEN DeduplicateAndSortMarkers(PooledMarkers(spine), spine)
    ELSE <<>>

(***************************************************************************)
(* Markup and text as token sequences                                      *)
(***************************************************************************)
\* the runs of ordinary text (no whitespace, no markup) and their lengths
TextRuns == {"W1", "W4502", "W8999", "W9000", "W18001"}

RunLen(t) ==
    CASE t = "W1" -> 1 [] t = "W4502" -> 4502 [] t = "W8999" -> 8999
      [] t = "W9000" -> 9000 [] t = "W18001" -> 18001

\* the tags, as they are written in the markup
TagText ==
    [t \in {"<p>", "</p>", "<br/>", "<div>", "</div>", "<div4>", "<div8>",
            "<spanG>", "<spanF>", "</span>", "<h2>", "</h2>",
            "<ruby>", "</ruby>", "<rt>", "</rt>",
            "<script>", "</script>", "<style>", "</style>"} |->
        CASE t = "<div4>" -> 23     \* <div class="start-4em">
          [] t = "<div8>" -> 23     \* <div class="start-8em">
          [] t = "<spanG>" -> 20    \* <span class="gfont">
          [] t = "<spanF>" -> 29    \* <span class="font-1em10 tcy">
          [] t = "<p>" -> 3 [] t = "</p>" -> 4 [] t = "<br/>" -> 5
          [] t = "<div>" -> 5 [] t = "</div>" -> 6 [] t = "</span>" -> 7
          [] t = "<h2>" -> 4 [] t = "</h2>" -> 5
          [] t = "<ruby>" -> 6 [] t = "</ruby>" -> 7 [] t = "<rt>" -> 4 [] t = "</rt>" -> 5
          [] t = "<script>" -> 8 [] t = "</script>" -> 9
          [] t = "<style>" -> 7 [] t = "</style>" -> 8]

IsTag(t) == t \in DOMAIN TagText

\* character references and what html.unescape makes of them
Entities == [t \in {"&amp;"} |-> "&"]

\* the number of characters a token stands for
TokLen(t) ==
    IF t \in TextRuns THEN RunLen(t)
    ELSE IF IsTag(t) THEN TagText[t]
    ELSE IF t = "&amp;" THEN 5
    ELSE 1

\* len(s)
RECURSIVE StrLen(_)
StrLen(s) == IF s = <<>> THEN 0 ELSE TokLen(Head(s)) + StrLen(Tail(s))

\* the offset in characters of token i of s (0-based, as match.start())
OffsetOf(s, i) == StrLen(SubSeq(s, 1, i - 1))

\* the end of the run of whitespace that starts at i (i itself when there is none)
RECURSIVE SpacesEnd(_, _)
SpacesEnd(s, i) ==
    IF i <= Len(s) /\ IsSpace(s[i]) THEN SpacesEnd(s, i + 1) ELSE i

\* the end of the run of [１２３４５６７８９０\d] that starts at i
RECURSIVE DigitsEnd(_, _)
DigitsEnd(s, i) ==
    IF i <= Len(s) /\ IsDigit(s[i]) THEN DigitsEnd(s, i + 1) ELSE i

At(s, i, t) == i <= Len(s) /\ s[i] = t

\* the number of tokens in the first pos characters of s (pos on a token boundary)
TokensIn(s, pos) == CHOOSE n \in 0..Len(s) : StrLen(SubSeq(s, 1, n)) = pos

\* s[a:b]
Slice(s, a, b) == SubSeq(s, TokensIn(s, a) + 1, TokensIn(s, b))

(***************************************************************************)
(* find_subchapters_in_html: the five marker patterns                      *)
(* Each gives, for a match starting at token i, [ok, num]: whether the     *)
(* pattern matches there and the tokens of its group 1.                    *)
(***************************************************************************)
NoMatch == [ok |-> FALSE, num |-> <<>>]

Group(s, i) == [ok |-> TRUE, num |-> SubSeq(s, i, DigitsEnd(s, i) - 1)]

\* <div class="start-4em">\s*<p>(digits)</p>\s*</div>
Pattern1(s, i) ==
    LET p == SpacesEnd(s, i + 1)
        d == p + 1
        e == DigitsEnd(s, d)
    IN  IF /\ At(s, i, "<div4>") /\ At(s, p, "<p>") /\ e > d
           /\ At(s, e, "</p>") /\ At(s, SpacesEnd(s, e + 1), "</div>")
        THEN Group(s, d) ELSE NoMatch

\* <span class="gfont">(digits)</span>
Pattern2(s, i) ==
    LET d == i + 1
        e == DigitsEnd(s, d)
    IN  IF At(s, i, "<spanG>") /\ e > d /\ At(s, e, "</span>")
        THEN Group(s, d) ELSE NoMatch

\* <p>\s*　+\s*<span class="gfont">(digits)</span>\s*</p>
Pattern3(s, i) ==
    LET g == SpacesEnd(s, i + 1)
        d == g + 1
        e == DigitsEnd(s, d)
    IN  IF /\ At(s, i, "<p>")
           /\ \E k \in (i + 1)..(g - 1) : s[k] = "IDE"
           /\ At(s, g, "<spanG>") /\ e > d /\ At(s, e, "</span>")
           /\ At(s, SpacesEnd(s, e + 1), "</p>")
        THEN Group(s, d) ELSE NoMatch

\* <div class="start-8em">\s*<p>\s*<span class="font-1em10 ...">(digits)</span>
\* \s*</p>\s*</div>
Pattern4(s, i) ==
    LET p == SpacesEnd(s, i + 1)
        g == SpacesEnd(s, p + 1)
        d == g + 1
        e == DigitsEnd(s, d)
        q == SpacesEnd(s, e + 1)
    IN  IF /\ At(s, i, "<div8>") /\ At(s, p, "<p>") /\ At(s, g, "<spanF>")
           /\ e > d /\ At(s, e, "</span>") /\ At(s, q, "</p>")
           /\ At(s, SpacesEnd(s, q + 1), "</div>")
        THEN Group(s, d) ELSE NoMatch

\* <p>\s*　{2,}\s*(digits)\s*</p>
Pattern5(s, i) ==
    LET d == SpacesEnd(s, i + 1)
        e == DigitsEnd(s, d)
    IN  IF /\ At(s, i, "<p>")
           /\ \E k \in (i + 1)..(d - 2) : s[k] = "IDE" /\ s[k + 1] = "IDE"
           /\ e > d /\ At(s, SpacesEnd(s, e), "</p>")
        THEN Group(s, d) ELSE NoMatch

NumPatterns == 5

PatternAt(k, s, i) ==
    CASE k = 1 -> Pattern1(s, i) [] k = 2 -> Pattern2(s, i) [] k = 3 -> Pattern3(s, i)
      [] k = 4 -> Pattern4(s, i) [] k = 5 -> Pattern5(s, i)

\* all_matches after the sort by start: (pattern, token index) of every match,
\* by start offset, equal offsets in the order the patterns are listed
RECURSIVE SortMatches(_)
SortMatches(M) ==
    IF M = {} THEN <<>>
    ELSE LET m == CHOOSE x \in M :
                      \A y \in M : x[2] < y[2] \/ (x[2] = y[2] /\ x[1] <= y[1])
         IN  <<m>> \o SortMatches(M \ {m})

\* the matches of the first pattern that matches at all, the other patterns
\* left out
AllMatchesFirstPattern(s) ==
    LET found == {<<k, i>> \in (1..NumPatterns) \X (1..Len(s)) : PatternAt(k, s, i).ok}
    IN  SortMatches({m \in found : \A n \in found : m[1] <= n[1]})

AllMatches(s) ==
    SortMatches({<<k, i>> \in (1..NumPatterns) \X (1..Len(s)) : PatternAt(k, s, i).ok})

\* number_map
NumberMap(c) ==
    CASE c = "F0" -> "0" [] c = "F1" -> "1" [] c = "F2" -> "2" [] c = "F3" -> "3"
      [] c = "F4" -> "4" [] c = "F5" -> "5" [] c = "F6" -> "6" [] c = "F7" -> "7"
      [] c = "F8" -> "8" [] c = "F9" -> "9" [] OTHER -> c

\* converted_number
ConvertNumber(num) == [i \in 1..Len(num) |-> NumberMap(num[i])]

DigitValue(c) ==
    CASE c = "0" -> 0 [] c = "1" -> 1 [] c = "2" -> 2 [] c = "3" -> 3 [] c = "4" -> 4
      [] c = "5" -> 5 [] c = "6" -> 6 [] c = "7" -> 7 [] c = "8" -> 8 [] c = "9" -> 9

\* int(converted_number)
RECURSIVE IntOf(_)
IntOf(digits) ==
    IF digits = <<>> THEN 0
    ELSE 10 * IntOf(SubSeq(digits, 1, Len(digits) - 1)) + DigitValue(digits[Len(digits)])

\* the range of the subchapter numbers
MinSubchapter == 1

MaxSubchapter == 50

\* if chapter_num < 1 or chapter_num > 50: continue
InRange(n) == ~(n < MinSubchapter \/ n > MaxSubchapter)

\* the subchapter of match j of all_matches
SubchapterOf(s, matches, j) ==
    LET i == matches[j][2]
        e == IF j + 1 <= Len(matches) THEN matches[j + 1][2] ELSE Len(s) + 1
    IN  [number |-> ConvertNumber(PatternAt(matches[j][1], s, i).num),
         start_pos |-> OffsetOf(s, i),
         end_pos |-> OffsetOf(s, e),
         content |-> Slice(s, OffsetOf(s, i), OffsetOf(s, e)),
         pattern |-> matches[j][1]]

\* the loop over all_matches: the matches with a number in range, in order
RetainedSubchapters(s, matches) ==
    LET IsKept(j) == InRange(IntOf(ConvertNumber(PatternAt(matches[j][1], s, matches[j][2]).num)))
        kept == SelectSeq([j \in 1..Len(matches) |-> j], IsKept)
    IN  [n \in 1..Len(kept) |-> SubchapterOf(s, matches, kept[n])]

\* the first subchapter made to start at 0, when the first match does not
AdjustFirst(s, matches, subs) ==
    IF subs # <<>> /\ OffsetOf(s, matches[1][2]) > 0
    THEN [subs EXCEPT ![1] =
             [@ EXCEPT !.content = Slice(s, 0, subs[1].end_pos),
                        !.start_pos = 0]]
    ELSE subs

FindSubchaptersInHtml(s) ==
    AdjustFirst(s, AllMatches(s), RetainedSubchapters(s, AllMatches(s)))

(***************************************************************************)
(* process_furigana and html_to_text                                       *)
(***************************************************************************)
\* the first i with s[i] = t at or after from, Len(s) + 1 when there is none
RECURSIVE IndexFrom(_, _, _)
IndexFrom(s, t, from) ==
    IF from > Len(s) THEN Len(s) + 1
    ELSE IF s[from] = t THEN from ELSE IndexFrom(s, t, from + 1)

\* re.sub(open.*?close, '', s): every span from a token open to the next close
RECURSIVE RemoveSpans(_, _, _)
RemoveSpans(s, open, close) ==
    LET i == IndexFrom(s, open, 1)
        j == IndexFrom(s, close, i + 1)
    IN  IF j > Len(s) THEN s
        ELSE SubSeq(s, 1, i - 1) \o RemoveSpans(SubSeq(s, j + 1, Len(s)), open, close)

\* the odd parts of re.split(open(.*?)close, s), joined
RECURSIVE InsideSpans(_, _, _)
InsideSpans(s, open, close) ==
    LET i == IndexFrom(s, open, 1)
        j == IndexFrom(s, close, i + 1)
    IN  IF j > Len(s) THEN <<>>
        ELSE SubSeq(s, i + 1, j - 1) \o InsideSpans(SubSeq(s, j + 1, Len(s)), open, close)

\* replace_ruby: kanji_text（furigana_text）, "UFF08" and "UFF09" the brackets
ReplaceRuby(ruby_content) ==
    LET kanji_text == RemoveSpans(ruby_content, "<rt>", "</rt>")
        furigana_text == InsideSpans(ruby_content, "<rt>", "</rt>")
    IN  IF furigana_text # <<>>
        THEN kanji_text \o <<"UFF08">> \o furigana_text \o <<"UFF09">>
        ELSE kanji_text

\* replace_ruby_kanji_only
ReplaceRubyKanjiOnly(ruby_content) == RemoveSpans(ruby_content, "<rt>", "</rt>")

\* re.sub(r'<ruby>(.*?)</ruby>', ...)
RECURSIVE ProcessFurigana(_, _)
ProcessFurigana(s, with_furigana) ==
    LET i == IndexFrom(s, "<ruby>", 1)
        j == IndexFrom(s, "</ruby>", i + 1)
    IN  IF j > Len(s) THEN s
        ELSE SubSeq(s, 1, i - 1)
             \o (IF with_furigana
                 THEN ReplaceRuby(SubSeq(s, i + 1, j - 1))
                 ELSE ReplaceRubyKanjiOnly(SubSeq(s, i + 1, j - 1)))
             \o ProcessFurigana(SubSeq(s, j + 1, Len(s)), with_furigana)

\* html.unescape
Unescape(s) ==
    [i \in 1..Len(s) |-> IF s[i] \in DOMAIN Entities THEN Entities[s[i]] ELSE s[i]]

\* what a tag becomes: <br> a newline, </p> and the heading tags a blank line,
\* the div tags a newline, <p> and every other tag nothing
TagToText(t) ==
    CASE t = "<br/>" -> <<"NL">>
      [] t = "</p>" -> <<"NL", "NL">>
      [] t \in {"<h2>", "</h2>"} -> <<"NL", "NL">>
      [] t \in {"<div>", "<div4>", "<div8>", "</div>"} -> <<"NL">>
      [] OTHER -> <<>>

RECURSIVE ReplaceTags(_)
ReplaceTags(s) ==
    IF s = <<>> THEN <<>>
    ELSE (IF IsTag(Head(s)) THEN TagToText(Head(s)) ELSE <<Head(s)>>)
         \o ReplaceTags(Tail(s))

\* re.sub(r'\n\s*\n', '\n\n', s)
RECURSIVE CollapseBlankLines(_)
CollapseBlankLines(s) ==
    IF s = <<>> THEN <<>>
    ELSE LET newlines == {k \in 2..(SpacesEnd(s, 2) - 1) : s[k] = "NL"}
         IN  IF s[1] = "NL" /\ newlines # {}
             THEN <<"NL", "NL">>
                  \o CollapseBlankLines(SubSeq(s, Max(newlines) + 1, Len(s)))
             ELSE <<s[1]>> \o CollapseBlankLines(Tail(s))

IsBlank(c) == c \in {" ", "TAB"}

\* re.sub(r'[ \t]+', ' ', s)
RECURSIVE CollapseSpaces(_)
CollapseSpaces(s) ==
    IF s = <<>> THEN <<>>
    ELSE IF IsBlank(s[1])
         THEN IF Len(s) > 1 /\ IsBlank(s[2])
              THEN CollapseSpaces(Tail(s))
              ELSE <<" ">> \o CollapseSpaces(Tail(s))
         ELSE <<s[1]>> \o CollapseSpaces(Tail(s))

HtmlToText(html_content, with_furigana) ==
    Strip(CollapseSpaces(CollapseBlankLines(ReplaceTags(Unescape(
        RemoveSpans(RemoveSpans(ProcessFurigana(html_content, with_furigana),
                                "<script>", "</script>"),
                    "<style>", "</style>"))))))

(***************************************************************************)
(* split_and_save_text                                                     *)
(***************************************************************************)
\* the nominal chunk size, in characters
CHUNK_SIZE == 15000

\* CHUNK_SIZE_TOLERANCE = 1.2, in tenths
ToleranceTenths == 12

\* math.ceil(a / b)
CeilDiv(a, b) == (a + b - 1) \div b

NumChunks(text) == CeilDiv(StrLen(text), CHUNK_SIZE)

\* a target that forgets the division by the number of chunks
TargetChunkSizeWhole(text) == StrLen(text)

TargetChunkSize(text) == CeilDiv(StrLen(text), NumChunks(text))

\* text.split('\n\n')
RECURSIVE SplitParagraphs(_)
SplitParagraphs(s) ==
    LET at == {i \in 1..(Len(s) - 1) : s[i] = "NL" /\ s[i + 1] = "NL"}
    IN  IF at = {} THEN <<s>>
        ELSE <<SubSeq(s, 1, Min(at) - 1)>>
             \o SplitParagraphs(SubSeq(s, Min(at) + 2, Len(s)))

NonEmpty(p) == p # <<>>

\* p = p.strip(); if not p: continue
Paragraphs(text) ==
    LET parts == SplitParagraphs(text)
    IN  SelectSeq([i \in 1..Len(parts) |-> Strip(parts[i])], NonEmpty)

\* "\n\n".join(paras)
RECURSIVE JoinParagraphs(_)
JoinParagraphs(paras) ==
    IF paras = <<>> THEN <<>>
    ELSE IF Len(paras) = 1 THEN paras[1]
    ELSE paras[1] \o <<"NL", "NL">> \o JoinParagraphs(Tail(paras))

\* a closing test against the nominal chunk size instead of the target
ClosesChunkNominal(current_chunk_paras, current_chunk_len, p_len, target_chunk_size) ==
    current_chunk_paras # <<>> /\ (current_chunk_len + p_len) > CHUNK_SIZE

\* a chunk closed before every paragraph
ClosesChunkAlways(current_chunk_paras, current_chunk_len, p_len, target_chunk_size) ==
    current_chunk_paras # <<>>

\* whether the paragraph of length p_len closes the current chunk
ClosesChunk(current_chunk_paras, current_chunk_len, p_len, target_chunk_size) ==
    current_chunk_paras # <<>> /\ (current_chunk_len + p_len) > target_chunk_size

\* a loop that forgets the last remaining chunk
RECURSIVE ChunkLoopDropLast(_, _, _, _, _)
ChunkLoopDropLast(paras, chunks, current_chunk_paras, current_chunk_len, target_chunk_size) ==
    IF paras = <<>>
    THEN chunks
    ELSE LET p == Head(paras)
             p_len == StrLen(p)
         IN  IF ClosesChunk(current_chunk_paras, current_chunk_len, p_len, target_chunk_size)
             THEN ChunkLoopDropLast(Tail(paras),
                                    Append(chunks, JoinParagraphs(current_chunk_paras)),
                                    <<p>>, p_len, target_chunk_size)
             ELSE ChunkLoopDropLast(Tail(paras), chunks,
                                    Append(current_chunk_paras, p),
                                    current_chunk_len + p_len + 2, target_chunk_size)

\* the loop over the paragraphs, then the last remaining chunk
RECURSIVE ChunkLoop(_, _, _, _, _)
ChunkLoop(paras, chunks, current_chunk_paras, current_chunk_len, target_chunk_size) ==
    IF paras = <<>>
    THEN IF current_chunk_paras # <<>>
         THEN Append(chunks, JoinParagraphs(current_chunk_paras))
         ELSE chunks
    ELSE LET p == Head(paras)
             p_len == StrLen(p)
         IN  IF ClosesChunk(current_chunk_paras, current_chunk_len, p_len, target_chunk_size)
             THEN ChunkLoop(Tail(paras),
                            Append(chunks, JoinParagraphs(current_chunk_paras)),
                            <<p>>, p_len, target_chunk_size)
             ELSE ChunkLoop(Tail(paras), chunks,
                            Append(current_chunk_paras, p),
                            current_chunk_len + p_len + 2, target_chunk_size)

\* the chunks split_and_save_text writes, in order
SplitChunks(text) ==
    IF NumChunks(text) <= 1 THEN <<text>>
    ELSE ChunkLoop(Paragraphs(text), <<>>, <<>>, 0, TargetChunkSize(text))

(***************************************************************************)
(* The packages the navigation resolver is run on                          *)
(***************************************************************************)
\* the most links (navPoints) one navigation document holds
MaxLinks == 2

\* the sequences over pool of length at most n
SeqsUpTo(pool, n) == UNION {[1..k -> pool] : k \in 0..n}

Link(text, href) == [text |-> text, href |-> href]

t_Cover == <<"C","o","v","e","r">>

t_COVER == <<"C","O","V","E","R">>

t_Uncover == <<"U","n","c","o","v","e","r">>

t_Prologue == <<"P","r","o","l","o","g","u","e">>

t_Chapter1 == <<"C","h","a","p","t","e","r"," ","1">>

t_Chapter2 == <<" ","C","h","a","p","t","e","r"," ","2"," ">>

\* 第1章
t_Dai1Shou == <<"U7B2C","1","U7AE0">>

\* 第三章
t_Dai3Shou == <<"U7B2C","U4E09","U7AE0">>

\* a chapter-like text that also holds a denylisted label
t_CoverChapter == <<"C","O","V","E","R"," ","c","h","a","p","t","e","r"," ","0">>

NavPool ==
    { Link(t_Cover, <<"cover.html">>),
      Link(t_Prologue, <<"p.html">>),
      Link(t_Chapter1, <<"c1.html", "#", "sec1">>) }

LegacyPool ==
    { Link(t_COVER, <<"OEBPS/", "cover.html">>),
      Link(t_Dai1Shou, <<"xhtml/", "c1.html">>),
      Link(t_Chapter2, <<"OEBPS/", "c2.html">>) }

NcxPool ==
    { Link(t_Uncover, <<"cover.html">>),
      Link(t_Chapter1, <<"OEBPS/", "c1.html">>),
      Link(Epirogu, <<"c2.html", "#", "end">>) }

\* a navigation document with a link to the prologue that is not well-formed
\* XML, and an NCX of the same kind
BrokenNav ==
    [parses |-> FALSE,
     navs |-> <<[type |-> "toc", links |-> <<Link(t_Prologue, <<"p.html">>)>>]>>,
     points |-> <<>>]

BrokenNcx ==
    [parses |-> FALSE, navs |-> <<>>,
     points |-> <<Link(t_Chapter1, <<"OEBPS/", "c1.html">>)>>]

\* a navigation document whose link names its file with the directory the
\* content documents are in
PrefixedNav ==
    [parses |-> TRUE,
     navs |-> <<[type |-> "toc", links |-> <<Link(t_Chapter1, <<"Text/", "c1.html">>)>>]>>,
     points |-> <<>>]

\* a navigation document whose second link names a file that is in no spine
StrayNav ==
    [parses |-> TRUE,
     navs |-> <<[type |-> "toc",
                 links |-> << Link(t_Prologue, <<"p.html">>),
                              Link(t_Dai3Shou, <<"c3.html">>),
                              Link(t_Chapter2, <<"c2.html">>) >>]>>,
     points |-> <<>>]

\* a navigation document whose first chapter is two files of the books
SpanNav ==
    [parses |-> TRUE,
     navs |-> <<[type |-> "toc",
                 links |-> << Link(t_Prologue, <<"p.html">>),
                              Link(t_Chapter2, <<"c2.html">>) >>]>>,
     points |-> <<>>]

\* a navigation document with two links into one file
AnchorNav ==
    [parses |-> TRUE,
     navs |-> <<[type |-> "toc",
                 links |-> << Link(t_Chapter1, <<"c1.html", "#", "sec1">>),
                              Link(t_Chapter2, <<"c1.html", "#", "sec2">>) >>]>>,
     points |-> <<>>]

\* a document that does not parse, no nav at all, a nav typed toc, an untyped
\* nav, an untyped landmarks nav in front of the nav typed toc, a nav whose
\* link has a directory, a nav with a link out of the spine, a nav with two
\* links into one file, and a nav whose first chapter is two files
NavDocs ==
    {[parses |-> FALSE, navs |-> <<>>, points |-> <<>>], BrokenNav, PrefixedNav, StrayNav,
     AnchorNav, SpanNav,
     [parses |-> TRUE, navs |-> <<>>, points |-> <<>>]}
    \cup {[parses |-> TRUE, navs |-> <<[type |-> t, links |-> l]>>, points |-> <<>>] :
             t \in {"toc", "other"}, l \in SeqsUpTo(NavPool, MaxLinks)}
    \cup {[parses |-> TRUE,
           navs |-> <<[type |-> "landmarks", links |-> <<Link(t_Dai3Shou, <<"c3.html">>)>>],
                      [type |-> "toc", links |-> l]>>,
           points |-> <<>>] : l \in SeqsUpTo(NavPool, MaxLinks)}

LegacyDocs ==
    {[parses |-> FALSE, navs |-> <<>>, points |-> <<>>], BrokenNav}
    \cup {[parses |-> TRUE, navs |-> <<[type |-> "toc", links |-> l]>>, points |-> <<>>] :
             l \in SeqsUpTo(LegacyPool, MaxLinks)}

NcxDocs ==
    {[parses |-> FALSE, navs |-> <<>>, points |-> <<>>], BrokenNcx}
    \cup {[parses |-> TRUE, navs |-> <<>>, points |-> l] :
             l \in SeqsUpTo(NcxPool, MaxLinks)}

\* a file not read (yet)
Unread == [parses |-> FALSE, navs |-> <<>>, points |-> <<>>]

NavFiles == {"nav", "legacyBase", "legacyItem", "ncx"}

Strategies == <<"nav", "legacy", "ncx", "embedded">>

\* content documents of the spine
NoDoc == [exists |-> FALSE, wellformed |-> FALSE, contentsWord |-> FALSE, links |-> <<>>]

PlainDoc == [exists |-> TRUE, wellformed |-> TRUE, contentsWord |-> FALSE, links |-> <<>>]

\* a table of contents page with four chapter-like links, one of them denylisted
TocDoc ==
    [exists |-> TRUE, wellformed |-> TRUE, contentsWord |-> FALSE,
     links |-> << Link(t_CoverChapter, <<"cover.html">>),
                  Link(t_Chapter2, <<"OEBPS/", "c2.html">>),
                  Link(t_Chapter1, <<"c1.html">>),
                  Link(t_Dai3Shou, <<"xhtml/", "c3.html">>) >>]

\* a page holding the word CONTENTS and one chapter-like link, not well-formed XML
ContentsDoc ==
    [exists |-> TRUE, wellformed |-> FALSE, contentsWord |-> TRUE,
     links |-> << Link(Epirogu, <<"c2.html", "#", "end">>),
                  Link(t_Prologue, <<"p.html">>) >>]

\* a page with two chapter links, each counted by both patterns
TwoLinkDoc ==
    [exists |-> TRUE, wellformed |-> TRUE, contentsWord |-> FALSE,
     links |-> << Link(t_Chapter1, <<"c1.html">>),
                  Link(t_Chapter1, <<"c1.html">>),
                  Link(t_Chapter2, <<"c2.html">>) >>]

\* a page with two chapter links and nothing else
PairDoc ==
    [exists |-> TRUE, wellformed |-> TRUE, contentsWord |-> FALSE,
     links |-> << Link(t_Chapter1, <<"c1.html">>),
                  Link(t_Chapter2, <<"c2.html">>) >>]

\* a table of contents page whose first link names its file with the
\* directory xhtml/, and whose last link names a file outside the spine
PrefixedTocDoc ==
    [exists |-> TRUE, wellformed |-> TRUE, contentsWord |-> FALSE,
     links |-> << Link(t_Dai3Shou, <<"c3.html">>),
                  Link(t_Dai1Shou, <<"xhtml/", "c1.html">>),
                  Link(t_Chapter2, <<"c2.html">>) >>]

Item(href, media_type, doc) == [href |-> href, media_type |-> media_type, doc |-> doc]

Spines ==
    { << Item(<<"cover.html">>, "application/xhtml+xml", d1),
         Item(<<"img.jpg">>, "image/jpeg", TocDoc),
         Item(<<"OEBPS/", "c1.html">>, "application/xhtml+xml", d2),
         Item(<<"OEBPS/", "c2.html">>, "text/html", PlainDoc) >> :
        d1 \in {NoDoc, PlainDoc, TocDoc, TwoLinkDoc, PairDoc, PrefixedTocDoc}, d2 \in {PlainDoc, ContentsDoc} }

(***************************************************************************)
(* parse_navigation_file                                                   *)
(***************************************************************************)
\* the early return left out: the cascade goes on whatever was found
AfterParseNoReturn(markers, next) == next

\* if chapter_markers: return chapter_markers
AfterParse(markers, next) == IF markers # <<>> THEN "done" ELSE next

\* the markers of a strategy added to those found so far, never returned early
AttemptMix(strategy, file, doc, markers, next) ==
    /\ docs' = [docs EXCEPT ![file] = doc]
    /\ invoked' = Append(invoked, strategy)
    /\ outputs' = [outputs EXCEPT ![strategy] = markers]
    /\ pc' = next
    /\ returned' = returned \o markers
    /\ UNCHANGED <<exists, spine_items>>
    /\ UNCHANGED chapVars
    /\ UNCHANGED <<bookVars, bulkVars, runVars>>

\* one strategy that reads a file: the parser is called, and its list returned
\* when it is not empty
Attempt(strategy, file, doc, markers, next) ==
    /\ docs' = [docs EXCEPT ![file] = doc]
    /\ invoked' = Append(invoked, strategy)
    /\ outputs' = [outputs EXCEPT ![strategy] = markers]
    /\ pc' = AfterParse(markers, next)
    /\ returned' = IF AfterParse(markers, next) = "done" THEN markers ELSE returned
    /\ UNCHANGED <<exists, spine_items>>
    /\ UNCHANGED chapVars
    /\ UNCHANGED <<bookVars, bulkVars, runVars>>

Skip(next) ==
    /\ pc' = next
    /\ UNCHANGED <<exists, docs, spine_items, invoked, outputs, returned>>
    /\ UNCHANGED chapVars
    /\ UNCHANGED <<bookVars, bulkVars, runVars>>

\* nav.xhtml
TryNav ==
    /\ pc = "nav"
    /\ IF exists["nav"]
       THEN \E doc \in NavDocs :
                Attempt("nav", "nav", doc, ParseNavigationXhtml(doc), "legacy")
       ELSE Skip("legacy")

\* navigation-documents.xhtml, under base_dir or else under base_dir/item
LegacyPath == IF exists["legacyBase"] THEN "legacyBase" ELSE "legacyItem"

TryLegacy ==
    /\ pc = "legacy"
    /\ IF exists[LegacyPath]
       THEN \E doc \in LegacyDocs :
                Attempt("legacy", LegacyPath, doc, ParseNavigationXhtml(doc), "ncx")
       ELSE Skip("ncx")

\* toc.ncx handed to the parser of the navigation documents
TryNcxWrongParser ==
    /\ pc = "ncx"
    /\ IF exists["ncx"]
       THEN \E doc \in NcxDocs :
                Attempt("ncx", "ncx", doc, ParseNavigationXhtml(doc), "embedded")
       ELSE Skip("embedded")

\* toc.ncx
TryNcx ==
    /\ pc = "ncx"
    /\ IF exists["ncx"]
       THEN \E doc \in NcxDocs :
                Attempt("ncx", "ncx", doc, ParseTocNcx(doc), "embedded")
       ELSE Skip("embedded")

\* the guard of TryEmbedded
TryEmbeddedGuard ==
    /\ pc = "embedded"

\* the embedded table of contents, then return []
TryEmbedded ==
    /\ TryEmbeddedGuard
    /\ invoked' = Append(invoked, "embedded")
    /\ outputs' = [outputs EXCEPT !["embedded"] = ParseEmbeddedToc(spine_items)]
    /\ pc' = "done"
    /\ returned' = ParseEmbeddedToc(spine_items)
    /\ UNCHANGED <<exists, docs, spine_items>>
    /\ UNCHANGED chapVars
    /\ UNCHANGED <<bookVars, bulkVars, runVars>>

(***************************************************************************)
(* detect_input_type, extract_epub and cleanup                             *)
(* The input is [kind, zip_ok, at_temp]: kind is "epub" (a file with the   *)
(* suffix .epub), "folder" (a directory with META-INF and mimetype), "dir" *)
(* (any other directory) or "missing"; zip_ok whether the archive can be   *)
(* read; at_temp whether the directory is output_dir/temp_extracted.       *)
(***************************************************************************)
Input(kind, zip_ok, at_temp) == [kind |-> kind, zip_ok |-> zip_ok, at_temp |-> at_temp]

EpubFile(zip_ok) == Input("epub", zip_ok, FALSE)

\* detect_input_type: the exception raised, "" when none
DetectError(in) ==
    IF in.kind \in {"epub", "folder"} THEN ""
    ELSE IF in.kind = "dir" THEN "ValueError"
    ELSE "FileNotFoundError"

\* self.is_extracted_folder after detect_input_type
IsExtractedFolder(in) == in.kind = "folder"

\* extract_epub: zipfile.ZipFile raises for an archive that cannot be read
ExtractError(in) == IF in.kind = "epub" /\ ~in.zip_ok THEN "BadZipFile" ELSE ""

\* extract_epub: self.temp_dir.mkdir(parents=True, exist_ok=True), for a file
TempAfterExtract(in, temp) == IF in.kind = "epub" THEN TRUE ELSE temp

\* self.source_dir after extract_epub
SourceDir(in) == IF in.kind = "folder" THEN "input" ELSE "temp"

\* a cleanup that removes nothing
AfterCleanupKeeps(folder, temp) == temp

\* cleanup: whether temp_dir exists after it
AfterCleanup(folder, temp) == IF ~folder /\ temp THEN FALSE ELSE temp

\* finally: self.cleanup()
Cleanup ==
    /\ temp_dir' = AfterCleanup(is_extracted_folder, temp_dir)
    /\ cleaned' = TRUE
    /\ UNCHANGED <<input, is_extracted_folder, source_dir>>

\* extract_chapters, lines 995-1001: the input is a book, source_dir is set
PrepareSource ==
    /\ bkPc = "begin"
    /\ DetectError(input) = "" /\ ExtractError(input) = ""
    /\ is_extracted_folder' = IsExtractedFolder(input)
    /\ temp_dir' = TempAfterExtract(input, temp_dir)
    /\ source_dir' = SourceDir(input)
    /\ bkPc' = "start"
    /\ UNCHANGED <<input, cleaned>>
    /\ UNCHANGED <<opf, disk, manifest_items, chapters, resources, raised, marker_i, file_sets,
                   index_written>>
    /\ UNCHANGED <<navVars, chapVars, bulkVars>>

\* lines 998-1001 and 1025-1029: detect_input_type or extract_epub raises,
\* the exception is raised again after cleanup
PrepareFails ==
    /\ bkPc = "begin"
    /\ DetectError(input) # "" \/ ExtractError(input) # ""
    /\ raised' = IF DetectError(input) # "" THEN DetectError(input) ELSE ExtractError(input)
    /\ is_extracted_folder' = (DetectError(input) = "" /\ IsExtractedFolder(input))
    /\ temp_dir' = IF DetectError(input) # ""
                   THEN AfterCleanup(FALSE, temp_dir)
                   ELSE AfterCleanup(IsExtractedFolder(input),
                                     TempAfterExtract(input, temp_dir))
    /\ cleaned' = TRUE
    /\ bkPc' = "failed"
    /\ UNCHANGED <<input, source_dir>>
    /\ UNCHANGED <<opf, disk, manifest_items, chapters, resources, marker_i, file_sets,
                   index_written>>
    /\ UNCHANGED <<navVars, chapVars, bulkVars>>

\* an extracted folder has been taken as the source of the run
FolderPrepared ==
    /\ input = Input("folder", FALSE, FALSE)
    /\ is_extracted_folder = TRUE
    /\ temp_dir = FALSE
    /\ source_dir = "input"
    /\ cleaned = FALSE

\* no package is loaded and no batch is running
BookIdle ==
    /\ opf = [container |-> "missing", found |-> FALSE, parses |-> FALSE,
              items |-> <<>>, itemrefs |-> <<>>]
    /\ disk = {}
    /\ manifest_items = <<>>
    /\ chapters = <<>>
    /\ resources = <<>>
    /\ bkPc = "idle"
    /\ raised = ""
    /\ marker_i = 0
    /\ file_sets = <<>>
    /\ index_written = FALSE
    /\ epub_files = <<>>
    /\ book_i = 0
    /\ attempted = <<>>
    /\ successful_extractions = 0
    /\ failed_extractions = 0
    /\ FolderPrepared

\* no chapter is being extracted
ChapterIdle ==
    /\ chapter_files = <<>>
    /\ extract_subchapters = FALSE
    /\ split_no_subchapters = FALSE
    /\ show_furigana = FALSE
    /\ combined_html = <<>>
    /\ subchapters = <<>>
    /\ chapter_text = <<>>
    /\ written = <<>>
    /\ split_calls = 0
    /\ chPc = "idle"

InitNav ==
    /\ ChapterIdle
    /\ BookIdle
    /\ exists \in [NavFiles -> BOOLEAN]
    /\ docs = [f \in NavFiles |-> Unread]
    /\ spine_items \in Spines
    /\ pc = "nav"
    /\ invoked = <<>>
    /\ outputs = [s \in Range(Strategies) |-> <<>>]
    /\ returned = <<>>

NextNav == TryNav \/ TryLegacy \/ TryNcx \/ TryEmbedded

SpecNav == InitNav /\ [][NextNav]_vars

(***************************************************************************)
(* extract_chapter_with_subchapters                                        *)
(***************************************************************************)
\* the most blocks of markup in one chapter
MaxBlocks == 3

\* the blocks a chapter's markup is made of: paragraphs, a long line ended by
\* <br/>, and a marker of each pattern
Blocks ==
    { <<"<p>", "W1", "</p>">>,
      <<"<p>", "W4502", "</p>">>,
      <<"<p>", "W8999", "</p>">>,
      <<"<p>", "IDE", "W9000", "</p>">>,
      <<"W18001", "<br/>">>,
      <<"<p>", "IDE", "<spanG>", "F1", "</span>", "</p>">>,
      <<"<spanG>", "2", "</span>">>,
      <<"<p>", "IDE", "IDE", "0", "</p>">>,
      <<"<p>", "IDE", "IDE", "F5", "1", "</p>">>,
      <<"<div4>", "<p>", "F0", "1", "</p>", "</div>">>,
      <<"<div8>", "<p>", "<spanF>", "F1", "F2", "</span>", "</p>", "</div>">> }

RECURSIVE Concat(_)
Concat(seqs) == IF seqs = <<>> THEN <<>> ELSE Head(seqs) \o Concat(Tail(seqs))

Markups == {Concat(bs) : bs \in SeqsUpTo(Blocks, MaxBlocks)}

\* combined_html += html_content + "\n", for each file that exists
RECURSIVE CombinedHtml(_)
CombinedHtml(files) ==
    IF files = <<>> THEN <<>>
    ELSE (IF Head(files).exists THEN Head(files).html \o <<"NL">> ELSE <<>>)
         \o CombinedHtml(Tail(files))

\* str(n), n >= 0
RECURSIVE ToDecimal(_)
ToDecimal(n) ==
    LET d == <<"0","1","2","3","4","5","6","7","8","9">>[(n % 10) + 1]
    IN  IF n < 10 THEN <<d>> ELSE ToDecimal(n \div 10) \o <<d>>

File(name, body) == [name |-> name, body |-> body]

\* a test against the chunk size without its tolerance
ExceedsChunkSize(text) == StrLen(text) > CHUNK_SIZE

\* len(chapter_text) > (CHUNK_SIZE * CHUNK_SIZE_TOLERANCE)
ExceedsTolerance(text) == StrLen(text) * 10 > CHUNK_SIZE * ToleranceTenths

\* extract_chapter_text: the text of every file that exists and has text,
\* each followed by a blank line, trimmed
RECURSIVE TextOfFiles(_)
TextOfFiles(files) ==
    IF files = <<>> THEN <<>>
    ELSE (IF Head(files).exists /\ Strip(HtmlToText(Head(files).html, show_furigana)) # <<>>
          THEN HtmlToText(Head(files).html, show_furigana) \o <<"NL", "NL">>
          ELSE <<>>)
         \o TextOfFiles(Tail(files))

ExtractChapterText(files) == Strip(TextOfFiles(files))

\* file_path.exists(), lines 805 and 903, raises OSError for one of the files:
\* the test is outside the try block of the loop
ExistsRaises(files) == \E k \in 1..Len(files) : files[k].raises

\* the guard of WriteChapterFile
WriteChapterFileGuard ==
    /\ chPc = "start"
    /\ ~extract_subchapters
    /\ ~ExistsRaises(chapter_files)

\* create_chapter_text_files, lines 776-787: without subchapter extraction the
\* chapter is one file, Chapter_NN_title.txt
WriteChapterFile ==
    /\ WriteChapterFileGuard
    /\ chapter_text' = ExtractChapterText(chapter_files)
    /\ written' = Append(written, File(<<"Chapter">>, ExtractChapterText(chapter_files)))
    /\ chPc' = "done"
    /\ UNCHANGED <<chapter_files, extract_subchapters, split_no_subchapters, show_furigana,
                   combined_html, subchapters, split_calls>>
    /\ UNCHANGED navVars
    /\ UNCHANGED <<bookVars, bulkVars, runVars>>

\* the guard of FindSubchapters
FindSubchaptersGuard ==
    /\ chPc = "start"
    /\ extract_subchapters
    /\ ~ExistsRaises(chapter_files)

\* lines 773-775 and 800-817: with subchapter extraction the markup is read and
\* searched for subchapters
FindSubchapters ==
    /\ FindSubchaptersGuard
    /\ combined_html' = CombinedHtml(chapter_files)
    /\ subchapters' = FindSubchaptersInHtml(CombinedHtml(chapter_files))
    /\ chPc' = IF FindSubchaptersInHtml(CombinedHtml(chapter_files)) # <<>>
               THEN "subchapters" ELSE "single"
    /\ UNCHANGED <<chapter_files, extract_subchapters, split_no_subchapters, show_furigana, chapter_text,
                   written, split_calls>>
    /\ UNCHANGED navVars
    /\ UNCHANGED <<bookVars, bulkVars, runVars>>

\* the file of subchapter j, when its text is not empty
SubchapterFile(sub) ==
    IF Strip(HtmlToText(sub.content, show_furigana)) # <<>>
    THEN <<File(sub.number, HtmlToText(sub.content, show_furigana))>>
    ELSE <<>>

\* the guard of WriteSubchapters
WriteSubchaptersGuard ==
    /\ chPc = "subchapters"

\* lines 819-834: one file per subchapter
WriteSubchapters ==
    /\ WriteSubchaptersGuard
    /\ written' = written
                  \o Concat([j \in 1..Len(subchapters) |-> SubchapterFile(subchapters[j])])
    /\ chPc' = "done"
    /\ UNCHANGED <<chapter_files, extract_subchapters, split_no_subchapters, show_furigana, combined_html,
                   subchapters, chapter_text, split_calls>>
    /\ UNCHANGED navVars
    /\ UNCHANGED <<bookVars, bulkVars, runVars>>

\* the guard of ReturnEmpty
ReturnEmptyGuard ==
    /\ chPc = "single"
    /\ Strip(HtmlToText(combined_html, show_furigana)) = <<>>

\* lines 837-840: no subchapter, and no text either
ReturnEmpty ==
    /\ ReturnEmptyGuard
    /\ chapter_text' = HtmlToText(combined_html, show_furigana)
    /\ chPc' = "done"
    /\ UNCHANGED <<chapter_files, extract_subchapters, split_no_subchapters, show_furigana, combined_html,
                   subchapters, written, split_calls>>
    /\ UNCHANGED navVars
    /\ UNCHANGED <<bookVars, bulkVars, runVars>>

\* the files split_and_save_text writes: [1], or [1], [2], ... one per chunk
ChunkFiles(text) ==
    [i \in 1..Len(SplitChunks(text)) |-> File(ToDecimal(i), SplitChunks(text)[i])]

\* the guard of SplitAndSave
SplitAndSaveGuard ==
    /\ chPc = "single"
    /\ Strip(HtmlToText(combined_html, show_furigana)) # <<>>
    /\ split_no_subchapters /\ ExceedsTolerance(HtmlToText(combined_html, show_furigana))

\* lines 846-847: the text is handed to split_and_save_text
SplitAndSave ==
    /\ SplitAndSaveGuard
    /\ chapter_text' = HtmlToText(combined_html, show_furigana)
    /\ split_calls' = split_calls + 1
    /\ written' = written \o ChunkFiles(HtmlToText(combined_html, show_furigana))
    /\ chPc' = "done"
    /\ UNCHANGED <<chapter_files, extract_subchapters, split_no_subchapters, show_furigana, combined_html,
                   subchapters>>
    /\ UNCHANGED navVars
    /\ UNCHANGED <<bookVars, bulkVars, runVars>>

\* the guard of WriteSingleFile
WriteSingleFileGuard ==
    /\ chPc = "single"
    /\ Strip(HtmlToText(combined_html, show_furigana)) # <<>>
    /\ ~(split_no_subchapters /\ ExceedsTolerance(HtmlToText(combined_html, show_furigana)))

\* lines 848-858: a single file for the chapter
WriteSingleFile ==
    /\ WriteSingleFileGuard
    /\ chapter_text' = HtmlToText(combined_html, show_furigana)
    /\ written' = Append(written, File(<<"1">>, HtmlToText(combined_html, show_furigana)))
    /\ chPc' = "done"
    /\ UNCHANGED <<chapter_files, extract_subchapters, split_no_subchapters, show_furigana, combined_html,
                   subchapters, split_calls>>
    /\ UNCHANGED navVars
    /\ UNCHANGED <<bookVars, bulkVars, runVars>>

\* no navigation is being resolved
NavIdle ==
    /\ exists = [f \in NavFiles |-> FALSE]
    /\ docs = [f \in NavFiles |-> Unread]
    /\ spine_items = <<>>
    /\ pc = "idle"
    /\ invoked = <<>>
    /\ outputs = [s \in Range(Strategies) |-> <<>>]
    /\ returned = <<>>

InitChapter ==
    /\ NavIdle
    /\ BookIdle
    /\ chapter_files \in {<<[exists |-> TRUE, raises |-> FALSE, html |-> h]>> : h \in Markups}
    /\ extract_subchapters \in BOOLEAN
    /\ split_no_subchapters \in BOOLEAN
    /\ show_furigana = FALSE
    /\ combined_html = <<>>
    /\ subchapters = <<>>
    /\ chapter_text = <<>>
    /\ written = <<>>
    /\ split_calls = 0
    /\ chPc = "start"

NextChapter ==
    \/ WriteChapterFile
    \/ FindSubchapters \/ WriteSubchapters \/ ReturnEmpty \/ SplitAndSave \/ WriteSingleFile

SpecChapter == InitChapter /\ [][NextChapter]_vars

(***************************************************************************)
(* parse_opf_file                                                          *)
(* The package description is [container, found, parses, items, itemrefs]: *)
(* items are the item elements [id, href, media_type] and itemrefs the     *)
(* idref of every itemref, in document order; "" is an id that is missing, *)
(* <<>> an href that is missing, "None" a media-type that is missing.      *)
(* Paths are relative to base_dir, the directory of the package file.      *)
(***************************************************************************)
\* possible_paths
PossiblePaths(href) == <<href, <<"OEBPS/">> \o href, <<"item/", "xhtml/">> \o href>>

\* full_path of an item, onDisk the paths that exist
FullPath(href, onDisk) ==
    IF StartsWith(href, <<"OEBPS/">>) \/ StartsWith(href, <<"item/">>)
    THEN href
    ELSE LET found == {k \in 1..Len(PossiblePaths(href)) : PossiblePaths(href)[k] \in onDisk}
         IN  IF found # {} THEN PossiblePaths(href)[Min(found)]
             ELSE PossiblePaths(href)[1]

\* if item_id and href
Registered(item) == item.id # "" /\ item.href # <<>>

\* what the links of a content document look like to the embedded search
DocAt(path, onDisk) ==
    IF path \notin onDisk THEN NoDoc
    ELSE IF PathName(path) = <<"toc.html">> THEN TocDoc
    ELSE PlainDoc

\* manifest_items: by id, the last item element of an id
ManifestItems(items, onDisk) ==
    LET kept == SelectSeq(items, Registered)
        Last(id) == kept[Max({k \in 1..Len(kept) : kept[k].id = id})]
    IN  [id \in {kept[k].id : k \in 1..Len(kept)} |->
            [href |-> Last(id).href,
             media_type |-> Last(id).media_type,
             full_path |-> FullPath(Last(id).href, onDisk),
             doc |-> DocAt(FullPath(Last(id).href, onDisk), onDisk)]]

\* a spine that holds an item once, however often it is referred to
SpineItemsOnce(itemrefs, manifest) ==
    LET idx == {k \in 1..Len(itemrefs) :
                   /\ itemrefs[k] \in DOMAIN manifest
                   /\ \A j \in 1..(k - 1) : itemrefs[j] # itemrefs[k]}
        IsFirst(k) == k \in idx
        known == SelectSeq([k \in 1..Len(itemrefs) |-> k], IsFirst)
    IN  [k \in 1..Len(known) |-> manifest[itemrefs[known[k]]]]

\* spine_items: the items the itemrefs name, in their order
SpineItems(itemrefs, manifest) ==
    LET Known(idref) == idref \in DOMAIN manifest
        known == SelectSeq(itemrefs, Known)
    IN  [k \in 1..Len(known) |-> manifest[known[k]]]

\* chapters
ChaptersOf(spine) == SelectSeq(spine, IsContent)

\* resources that keep every manifest item
ResourcesOfAll(manifest) == manifest

\* self.resources
ResourcesOf(manifest) ==
    [id \in {i \in DOMAIN manifest : ~IsContent(manifest[i])} |-> manifest[id]]

\* a path with a file name longer than the file system allows: path.exists()
\* raises OSError (File name too long) for it
TooLong(path) == "LONG.html" \in Range(path)

\* whether the loop over possible_paths raises for an item
ProbeRaises(item) ==
    /\ Registered(item)
    /\ ~(StartsWith(item.href, <<"OEBPS/">>) \/ StartsWith(item.href, <<"item/">>))
    /\ TooLong(item.href)

\* a package description that is taken for an empty one when it does not parse
PackageErrorLenient(package, onDisk) == ""

\* find_content_opf and parse_opf_file: the exception raised, "" when none
PackageError(package, onDisk) ==
    IF package.container = "unparsable" THEN "ParseError"
    ELSE IF ~package.found THEN "FileNotFoundError"
    ELSE IF ~package.parses THEN "ParseError"
    ELSE IF \E k \in 1..Len(package.items) : ProbeRaises(package.items[k]) THEN "OSError"
    ELSE ""

\* extract_chapters, lines 1004-1008: the package is loaded, and
\* parse_navigation_file is called
LoadPackage ==
    /\ bkPc = "start"
    /\ PackageError(opf, disk) = ""
    /\ manifest_items' = ManifestItems(opf.items, disk)
    /\ spine_items' = SpineItems(opf.itemrefs, ManifestItems(opf.items, disk))
    /\ chapters' = ChaptersOf(SpineItems(opf.itemrefs, ManifestItems(opf.items, disk)))
    /\ resources' = ResourcesOf(ManifestItems(opf.items, disk))
    /\ bkPc' = "loaded"
    /\ pc' = "nav"
    /\ UNCHANGED <<exists, docs, invoked, outputs, returned>>
    /\ UNCHANGED <<opf, disk, raised, marker_i, file_sets, index_written>>
    /\ UNCHANGED <<chapVars, bulkVars, runVars>>

\* extract_chapters, lines 1004-1005 and 1025-1027: the exception is raised again
PackageFails ==
    /\ bkPc = "start"
    /\ PackageError(opf, disk) # ""
    /\ raised' = PackageError(opf, disk)
    /\ bkPc' = "failed"
    /\ UNCHANGED <<opf, disk, manifest_items, chapters, resources, marker_i, file_sets,
                   index_written>>
    /\ UNCHANGED <<navVars, chapVars, bulkVars>>
    /\ Cleanup

\* the most item elements and the most itemrefs of a package description
MaxItems == 2

MaxItemrefs == 2

Package(container, found, parses, items, itemrefs) ==
    [container |-> container, found |-> found, parses |-> parses,
     items |-> items, itemrefs |-> itemrefs]

ManifestEntry(id, href, media_type) == [id |-> id, href |-> href, media_type |-> media_type]

\* item elements: two of the same id, hrefs with and without a directory, a
\* file name too long, and elements without id, href or media-type
ItemPool ==
    { ManifestEntry("a", <<"p.html">>, "application/xhtml+xml"),
      ManifestEntry("a", <<"img.jpg">>, "image/jpeg"),
      ManifestEntry("b", <<"OEBPS/", "c1.html">>, "text/html"),
      ManifestEntry("b", <<"item/", "xhtml/", "p.html">>, "application/xhtml+xml"),
      ManifestEntry("c", <<"p.html">>, "None"),
      ManifestEntry("c", <<"LONG.html">>, "text/html"),
      ManifestEntry("", <<"p.html">>, "application/xhtml+xml"),
      ManifestEntry("d", <<>>, "application/xhtml+xml") }

ItemrefPool == {"a", "b", "ghost"}

\* what is on disk under base_dir
LoaderDisks ==
    { {},
      {<<"p.html">>, <<"OEBPS/", "p.html">>},
      {<<"OEBPS/", "p.html">>, <<"item/", "xhtml/", "p.html">>},
      {<<"item/", "xhtml/", "p.html">>, <<"OEBPS/", "c1.html">>},
      {<<"OEBPS/", "OEBPS/", "c1.html">>, <<"item/", "xhtml/", "item/", "xhtml/", "p.html">>} }

\* packages that cannot be loaded: container.xml does not parse, no package
\* description is found, the package description does not parse
BrokenPackages ==
    { Package("unparsable", TRUE, TRUE, <<>>, <<>>),
      Package("missing", FALSE, TRUE, <<>>, <<>>),
      Package("ok", FALSE, TRUE, <<>>, <<>>),
      Package("ok", TRUE, FALSE, <<>>, <<>>) }

LoaderPackages ==
    BrokenPackages
    \cup {Package("ok", TRUE, TRUE, items, itemrefs) :
              items \in SeqsUpTo(ItemPool, MaxItems),
              itemrefs \in SeqsUpTo(ItemrefPool, MaxItemrefs)}

InitLoader ==
    /\ NavIdle
    /\ ChapterIdle
    /\ opf \in LoaderPackages
    /\ disk \in LoaderDisks
    /\ manifest_items = <<>>
    /\ chapters = <<>>
    /\ resources = <<>>
    /\ bkPc = "start"
    /\ raised = ""
    /\ marker_i = 0
    /\ file_sets = <<>>
    /\ index_written = FALSE
    /\ epub_files = <<>>
    /\ book_i = 0
    /\ attempted = <<>>
    /\ successful_extractions = 0
    /\ failed_extractions = 0
    /\ FolderPrepared

NextLoader == LoadPackage \/ PackageFails

SpecLoader == InitLoader /\ [][NextLoader]_vars

(***************************************************************************)
(* create_chapter_text_files, get_chapter_files, extract_all_spine_items   *)
(***************************************************************************)
\* if start_file.startswith('xhtml/'): start_file = start_file[6:]
StripXhtml(file) == IF StartsWith(file, <<"xhtml/">>) THEN Tail(file) ELSE file

\* the content items of the spine from index from to index to
ContentItems(spine, from, to) ==
    LET InChapter(i) == i >= from /\ i <= to /\ IsContent(spine[i])
        idx == SelectSeq([i \in 1..Len(spine) |-> i], InChapter)
    IN  [k \in 1..Len(idx) |-> spine[idx[k]]]

\* a chapter that is its start file and nothing else
GetChapterFilesStartOnly(start_file, next_start_file, spine) ==
    LET starts == {i \in 1..Len(spine) :
                      IsContent(spine[i]) /\ PathName(spine[i].href) = start_file}
    IN  IF starts = {} THEN <<>> ELSE ContentItems(spine, Min(starts), Min(starts))

\* a chapter that takes in the first file of the next chapter
GetChapterFilesThroughNext(start_file, next_start_file, spine) ==
    LET starts == {i \in 1..Len(spine) :
                      IsContent(spine[i]) /\ PathName(spine[i].href) = start_file}
        ends == {i \in 1..Len(spine) :
                    /\ starts # {} /\ i > Min(starts) /\ IsContent(spine[i])
                    /\ next_start_file # None /\ next_start_file # <<>>
                    /\ PathName(spine[i].href) = next_start_file}
    IN  IF starts = {} THEN <<>>
        ELSE ContentItems(spine, Min(starts),
                          IF ends = {} THEN Len(spine) ELSE Min(ends))

\* get_chapter_files; next_start_file is None for the last marker, and an empty
\* name is taken for None (if next_start_file)
GetChapterFiles(start_file, next_start_file, spine) ==
    LET starts == {i \in 1..Len(spine) :
                      IsContent(spine[i]) /\ PathName(spine[i].href) = start_file}
        ends == {i \in 1..Len(spine) :
                    /\ starts # {} /\ i > Min(starts) /\ IsContent(spine[i])
                    /\ next_start_file # None /\ next_start_file # <<>>
                    /\ PathName(spine[i].href) = next_start_file}
    IN  IF starts = {} THEN <<>>
        ELSE ContentItems(spine, Min(starts),
                          IF ends = {} THEN Len(spine) ELSE Min(ends) - 1)

\* the markup of the content documents, by file name: a blank cover, a short
\* prologue, a chapter with a subchapter heading, a long chapter without one
MarkupOf(path) ==
    CASE PathName(path) = <<"cover.html">> -> <<" ">>
      [] PathName(path) = <<"c1.html">> ->
             <<"<p>", "IDE", "<spanG>", "F1", "</span>", "</p>", "<p>", "W1", "</p>">>
      [] PathName(path) = <<"c2.html">> ->
             <<"<p>", "W8999", "</p>", "<p>", "W8999", "</p>", "<p>", "W4502", "</p>">>
      [] OTHER -> <<"<p>", "W1", "</p>">>

\* the files of a chapter as extract_chapter_text and
\* extract_chapter_with_subchapters read them
ChapterFilesOf(items, onDisk) ==
    [k \in 1..Len(items) |->
        [exists |-> items[k].full_path \in onDisk,
         raises |-> TooLong(items[k].full_path),
         html |-> MarkupOf(items[k].full_path)]]

\* chapter_markers[i + 1]['file'] without its xhtml/ prefix, None after the
\* last marker
NextStartFile(markers, i) ==
    IF i + 1 <= Len(markers) THEN StripXhtml(markers[i + 1].file) ELSE None

\* create_chapter_text_files, lines 755-771: the files of the next marker are
\* collected; lines 773-787 are the actions of the chapter
ProcessMarker ==
    /\ bkPc = "loaded" /\ pc = "done"
    /\ returned # <<>>
    /\ marker_i < Len(returned)
    /\ chPc \in {"idle", "done"}
    /\ marker_i' = marker_i + 1
    /\ file_sets' = Append(file_sets,
                           GetChapterFiles(StripXhtml(returned[marker_i + 1].file),
                                           NextStartFile(returned, marker_i + 1),
                                           spine_items))
    /\ chapter_files' = ChapterFilesOf(GetChapterFiles(StripXhtml(returned[marker_i + 1].file),
                                                       NextStartFile(returned, marker_i + 1),
                                                       spine_items), disk)
    /\ combined_html' = <<>>
    /\ subchapters' = <<>>
    /\ chapter_text' = <<>>
    /\ chPc' = "start"
    /\ UNCHANGED <<extract_subchapters, split_no_subchapters, show_furigana, written, split_calls>>
    /\ UNCHANGED <<opf, disk, manifest_items, chapters, resources, bkPc, raised, index_written>>
    /\ UNCHANGED <<navVars, bulkVars, runVars>>

\* extract_chapters, lines 1014-1015: every marker is handled, index.txt is
\* written
CreateIndexFile ==
    /\ bkPc = "loaded" /\ pc = "done"
    /\ returned # <<>>
    /\ marker_i = Len(returned)
    /\ chPc \in {"idle", "done"}
    /\ index_written' = TRUE
    /\ bkPc' = "done"
    /\ UNCHANGED <<opf, disk, manifest_items, chapters, resources, raised, marker_i, file_sets>>
    /\ UNCHANGED <<navVars, chapVars, bulkVars>>
    /\ Cleanup

\* f"{n:02d}"
Pad2(n) == IF n < 10 THEN <<"0">> \o ToDecimal(n) ELSE ToDecimal(n)

\* the files of spine item i when its text is handed to the chunk splitter
PartFileSplit(spine, i, onDisk) ==
    IF /\ IsContent(spine[i])
       /\ spine[i].full_path \in onDisk
       /\ Strip(HtmlToText(MarkupOf(spine[i].full_path), show_furigana)) # <<>>
    THEN IF split_no_subchapters
            /\ ExceedsTolerance(HtmlToText(MarkupOf(spine[i].full_path), show_furigana))
         THEN ChunkFiles(HtmlToText(MarkupOf(spine[i].full_path), show_furigana))
         ELSE <<File(<<"Part">> \o Pad2(i) \o PathName(spine[i].full_path),
                     HtmlToText(MarkupOf(spine[i].full_path), show_furigana))>>
    ELSE <<>>

\* the file extract_all_spine_items writes for spine item i, if any
PartFile(spine, i, onDisk) ==
    IF /\ IsContent(spine[i])
       /\ spine[i].full_path \in onDisk
       /\ Strip(HtmlToText(MarkupOf(spine[i].full_path), show_furigana)) # <<>>
    THEN <<File(<<"Part">> \o Pad2(i) \o PathName(spine[i].full_path),
                HtmlToText(MarkupOf(spine[i].full_path), show_furigana))>>
    ELSE <<>>

\* the spine items whose file_path.exists(), line 930, raises OSError
RaisingItems(spine) == {i \in 1..Len(spine) : IsContent(spine[i]) /\ TooLong(spine[i].full_path)}

\* the guard of ChapterFails
ChapterFailsGuard ==
    /\ bkPc = "loaded"
    /\ chPc = "start"
    /\ ExistsRaises(chapter_files)

\* lines 776-778, 903 and 805, 1025-1027: exists() raises for a file of the
\* chapter, nothing is written for the chapter and extract_chapters raises
ChapterFails ==
    /\ ChapterFailsGuard
    /\ raised' = "OSError"
    /\ bkPc' = "failed"
    /\ chPc' = "done"
    /\ UNCHANGED <<chapter_files, extract_subchapters, split_no_subchapters, show_furigana,
                   combined_html, subchapters, chapter_text, written, split_calls>>
    /\ UNCHANGED <<opf, disk, manifest_items, chapters, resources, marker_i, file_sets,
                   index_written>>
    /\ UNCHANGED <<navVars, bulkVars>>
    /\ Cleanup

\* the guard of ExtractAllSpineItemsFails
ExtractAllSpineItemsFailsGuard ==
    /\ bkPc = "loaded" /\ pc = "done"
    /\ returned = <<>>
    /\ RaisingItems(spine_items) # {}

\* lines 926-931 and 1025-1027: the items before the one exists() raises for
\* are written, and extract_chapters raises
ExtractAllSpineItemsFails ==
    /\ ExtractAllSpineItemsFailsGuard
    /\ written' = written
                  \o Concat([i \in 1..(Min(RaisingItems(spine_items)) - 1) |->
                                PartFile(spine_items, i, disk)])
    /\ raised' = "OSError"
    /\ bkPc' = "failed"
    /\ UNCHANGED <<chapter_files, extract_subchapters, split_no_subchapters, show_furigana,
                   combined_html, subchapters, chapter_text, split_calls, chPc>>
    /\ UNCHANGED <<opf, disk, manifest_items, chapters, resources, marker_i, file_sets,
                   index_written>>
    /\ UNCHANGED <<navVars, bulkVars>>
    /\ Cleanup

\* the guard of ExtractAllSpineItems
ExtractAllSpineItemsGuard ==
    /\ bkPc = "loaded" /\ pc = "done"
    /\ returned = <<>>
    /\ RaisingItems(spine_items) = {}

\* lines 742-745 and 1014: without markers every content item of the spine is
\* written to a file of its own, and there is no index
ExtractAllSpineItems ==
    /\ ExtractAllSpineItemsGuard
    /\ written' = written
                  \o Concat([i \in 1..Len(spine_items) |-> PartFile(spine_items, i, disk)])
    /\ bkPc' = "done"
    /\ UNCHANGED <<chapter_files, extract_subchapters, split_no_subchapters, show_furigana,
                   combined_html, subchapters, chapter_text, split_calls, chPc>>
    /\ UNCHANGED <<opf, disk, manifest_items, chapters, resources, raised, marker_i, file_sets,
                   index_written>>
    /\ UNCHANGED <<navVars, bulkVars>>
    /\ Cleanup

(***************************************************************************)
(* find_epub_files and bulk_extract_epubs                                  *)
(* A directory is a set of entries [rank, hidden]: rank is the place of    *)
(* the path in the order of paths, hidden whether the name starts with '.' *)
(***************************************************************************)
\* sorted(...)
RECURSIVE Sorted(_)
Sorted(S) == IF S = {} THEN <<>> ELSE <<Min(S)>> \o Sorted(S \ {Min(S)})

\* find_epub_files
FindEpubFiles(directory) == Sorted({e.rank : e \in {f \in directory : ~f.hidden}})

\* the state of an extractor that has just been constructed
FreshExtractor ==
    /\ manifest_items' = <<>>
    /\ chapters' = <<>>
    /\ resources' = <<>>
    /\ raised' = ""
    /\ marker_i' = 0
    /\ file_sets' = <<>>
    /\ index_written' = FALSE
    /\ docs' = [f \in NavFiles |-> Unread]
    /\ spine_items' = <<>>
    /\ pc' = "idle"
    /\ invoked' = <<>>
    /\ outputs' = [s \in Range(Strategies) |-> <<>>]
    /\ returned' = <<>>
    /\ chapter_files' = <<>>
    /\ combined_html' = <<>>
    /\ subchapters' = <<>>
    /\ chapter_text' = <<>>
    /\ written' = <<>>
    /\ split_calls' = 0
    /\ chPc' = "idle"

\* a batch that stops at the first book that fails
FinishBookAbort ==
    /\ bkPc \in {"done", "failed"}
    /\ book_i > 0
    /\ successful_extractions' = successful_extractions + (IF bkPc = "done" THEN 1 ELSE 0)
    /\ failed_extractions' = failed_extractions + (IF bkPc = "failed" THEN 1 ELSE 0)
    /\ book_i' = IF bkPc = "failed" THEN Len(epub_files) ELSE book_i
    /\ bkPc' = "idle"
    /\ UNCHANGED <<opf, disk, manifest_items, chapters, resources, raised, marker_i, file_sets,
                   index_written>>
    /\ UNCHANGED <<epub_files, attempted>>
    /\ UNCHANGED <<navVars, chapVars, runVars>>

\* lines 1093-1101: the book is counted as extracted or as failed, and the loop
\* goes on
FinishBook ==
    /\ bkPc \in {"done", "failed"}
    /\ book_i > 0
    /\ successful_extractions' = successful_extractions + (IF bkPc = "done" THEN 1 ELSE 0)
    /\ failed_extractions' = failed_extractions + (IF bkPc = "failed" THEN 1 ELSE 0)
    /\ bkPc' = "idle"
    /\ UNCHANGED <<opf, disk, manifest_items, chapters, resources, raised, marker_i, file_sets,
                   index_written>>
    /\ UNCHANGED <<epub_files, book_i, attempted>>
    /\ UNCHANGED <<navVars, chapVars, runVars>>

\* the most books of a batch
MaxBooks == 2

\* a book of four content documents under the directory prefix, all in the spine
PlainBook(prefix) ==
    Package("ok", TRUE, TRUE,
            << ManifestEntry("cover", prefix \o <<"cover.html">>, "application/xhtml+xml"),
               ManifestEntry("p", prefix \o <<"p.html">>, "application/xhtml+xml"),
               ManifestEntry("c1", prefix \o <<"c1.html">>, "application/xhtml+xml"),
               ManifestEntry("c2", prefix \o <<"c2.html">>, "text/html") >>,
            <<"cover", "p", "c1", "c2">>)

\* a book with a table of contents page, an image in the spine, an itemref
\* without item and an itemref that comes twice
TocBook ==
    Package("ok", TRUE, TRUE,
            << ManifestEntry("toc", <<"toc.html">>, "application/xhtml+xml"),
               ManifestEntry("img", <<"img.jpg">>, "image/jpeg"),
               ManifestEntry("c1", <<"c1.html">>, "application/xhtml+xml"),
               ManifestEntry("c2", <<"OEBPS/", "c2.html">>, "application/xhtml+xml"),
               ManifestEntry("nav", <<"nav.xhtml">>, "application/xhtml+xml") >>,
            <<"toc", "img", "ghost", "c1", "c2", "c1">>)

\* a book with an item whose file name is too long
LongNameBook ==
    Package("ok", TRUE, TRUE,
            << ManifestEntry("p", <<"p.html">>, "application/xhtml+xml"),
               ManifestEntry("c", <<"LONG.html">>, "application/xhtml+xml") >>,
            <<"p", "c">>)

\* a book whose second chapter file has a name that is too long, in a
\* directory that exists
LongChapterBook ==
    Package("ok", TRUE, TRUE,
            << ManifestEntry("p", <<"p.html">>, "application/xhtml+xml"),
               ManifestEntry("c", <<"OEBPS/", "LONG.html">>, "application/xhtml+xml"),
               ManifestEntry("c2", <<"c2.html">>, "application/xhtml+xml") >>,
            <<"p", "c", "c2">>)

Prefixes == {<<>>, <<"OEBPS/">>, <<"Text/">>}

BookPackages ==
    {PlainBook(prefix) : prefix \in Prefixes} \cup {TocBook, LongNameBook, LongChapterBook} \cup BrokenPackages

BookFileNames == {"cover.html", "p.html", "c1.html", "c2.html", "toc.html", "img.jpg"}

\* every file of the book at each place it may be at, and the same without
\* c2.html
AllFiles == {prefix \o <<name>> : prefix \in Prefixes, name \in BookFileNames}

BookDisks == {AllFiles, {path \in AllFiles : PathName(path) # <<"c2.html">>}}

\* the navigation files of a book: none, one of them, nav.xhtml and toc.ncx
NavLayouts ==
    { [f \in NavFiles |-> f \in present] :
        present \in {{}, {"nav"}, {"legacyItem"}, {"ncx"}, {"nav", "ncx"}} }

\* the books of a batch
BulkPackages == {PlainBook(<<>>), TocBook, Package("ok", TRUE, FALSE, <<>>, <<>>)}

Directories ==
    { directory \in SUBSET ([rank : 1..MaxBooks, hidden : BOOLEAN]) :
        \A e, f \in directory : e.rank = f.rank => e = f }

\* the files rglob("*.epub") finds: archives that can be read and archives
\* that cannot
BulkInputs == {EpubFile(TRUE), EpubFile(FALSE)}

\* lines 1073-1095: the next book of the batch is handed to a new extractor
StartBook ==
    /\ bkPc = "idle"
    /\ book_i < Len(epub_files)
    /\ book_i' = book_i + 1
    /\ attempted' = Append(attempted, epub_files[book_i + 1])
    /\ \E package \in BulkPackages :
           /\ opf' = package
           /\ disk' = AllFiles
    /\ exists' = [f \in NavFiles |-> FALSE]
    /\ FreshExtractor
    /\ \E in \in BulkInputs : input' = in
    /\ is_extracted_folder' = FALSE
    /\ temp_dir' = FALSE
    /\ source_dir' = "None"
    /\ cleaned' = FALSE
    /\ bkPc' = "begin"
    /\ UNCHANGED <<extract_subchapters, split_no_subchapters, show_furigana>>
    /\ UNCHANGED <<epub_files, successful_extractions, failed_extractions>>

\* one book given to extract_chapters
InitSingle ==
    /\ opf \in BookPackages
    /\ disk \in BookDisks
    /\ exists \in NavLayouts
    /\ bkPc = "start"
    /\ epub_files = <<>>

\* a directory given to bulk_extract_epubs
InitBulk ==
    /\ opf = Package("missing", FALSE, FALSE, <<>>, <<>>)
    /\ disk = {}
    /\ exists = [f \in NavFiles |-> FALSE]
    /\ bkPc = "idle"
    /\ epub_files \in {FindEpubFiles(directory) : directory \in Directories}

\* the state of an extractor that has done nothing yet, and of the options
FreshBook ==
    /\ manifest_items = <<>>
    /\ chapters = <<>>
    /\ resources = <<>>
    /\ raised = ""
    /\ marker_i = 0
    /\ file_sets = <<>>
    /\ index_written = FALSE
    /\ book_i = 0
    /\ attempted = <<>>
    /\ successful_extractions = 0
    /\ failed_extractions = 0
    /\ docs = [f \in NavFiles |-> Unread]
    /\ spine_items = <<>>
    /\ pc = "idle"
    /\ invoked = <<>>
    /\ outputs = [s \in Range(Strategies) |-> <<>>]
    /\ returned = <<>>
    /\ chapter_files = <<>>
    /\ extract_subchapters \in BOOLEAN
    /\ split_no_subchapters \in BOOLEAN
    /\ show_furigana = FALSE
    /\ combined_html = <<>>
    /\ subchapters = <<>>
    /\ chapter_text = <<>>
    /\ written = <<>>
    /\ split_calls = 0
    /\ chPc = "idle"

InitBook ==
    /\ InitSingle \/ InitBulk
    /\ FolderPrepared
    /\ FreshBook

NextBook ==
    \/ StartBook \/ FinishBook
    \/ PrepareSource \/ PrepareFails
    \/ LoadPackage \/ PackageFails
    \/ TryNav \/ TryLegacy \/ TryNcx \/ TryEmbedded
    \/ ProcessMarker \/ CreateIndexFile \/ ExtractAllSpineItems
    \/ ChapterFails \/ ExtractAllSpineItemsFails
    \/ WriteChapterFile
    \/ FindSubchapters \/ WriteSubchapters \/ ReturnEmpty \/ SplitAndSave \/ WriteSingleFile

SpecBook == InitBook /\ [][NextBook]_vars

\* the inputs of a run: archives, extracted folders and other directories,
\* at output_dir/temp_extracted or not, and a path that names nothing
RunInputs ==
    {EpubFile(z) : z \in BOOLEAN}
    \cup {Input(k, FALSE, a) : k \in {"folder", "dir"}, a \in BOOLEAN}
    \cup {Input("missing", FALSE, FALSE)}

\* the books of the runs: one that is extracted, one with a chapter file that
\* exists() raises for, one whose package description does not parse
RunPackages == {PlainBook(<<>>), LongChapterBook, Package("ok", TRUE, FALSE, <<>>, <<>>)}

\* extract_chapters is called on an input; temp_extracted may be there already
InitRunSingle ==
    /\ opf \in RunPackages
    /\ disk = AllFiles
    /\ exists \in NavLayouts
    /\ bkPc = "begin"
    /\ epub_files = <<>>
    /\ input \in RunInputs
    /\ temp_dir \in {t \in BOOLEAN : input.at_temp => t}
    /\ is_extracted_folder = FALSE
    /\ source_dir = "None"
    /\ cleaned = FALSE

InitRun ==
    /\ InitRunSingle \/ (InitBulk /\ FolderPrepared)
    /\ FreshBook

\* the steps that load the book, read its navigation files and go from one
\* marker and one book to the next
ControlSteps ==
    \/ StartBook \/ FinishBook
    \/ PrepareSource \/ PrepareFails
    \/ LoadPackage \/ PackageFails
    \/ TryNav \/ TryLegacy \/ TryNcx
    \/ ProcessMarker \/ CreateIndexFile

\* the steps that read the content documents of the spine
ContentSteps ==
    \/ TryEmbedded
    \/ ExtractAllSpineItems \/ ExtractAllSpineItemsFails \/ ChapterFails
    \/ WriteChapterFile
    \/ FindSubchapters \/ WriteSubchapters \/ ReturnEmpty \/ SplitAndSave \/ WriteSingleFile

\* one of ContentSteps can be taken: each of them is its guard and an
\* assignment to the variables that changes its position
ContentStepPending ==
    \/ TryEmbeddedGuard
    \/ ExtractAllSpineItemsGuard \/ ExtractAllSpineItemsFailsGuard \/ ChapterFailsGuard
    \/ WriteChapterFileGuard
    \/ FindSubchaptersGuard \/ WriteSubchaptersGuard \/ ReturnEmptyGuard
    \/ SplitAndSaveGuard \/ WriteSingleFileGuard

\* extract_chapters and the loop of bulk_extract_epubs are straight-line code
\* of one thread: a step that can be taken is taken. For ContentSteps weak
\* fairness is written out, with their guards for ENABLED <<ContentSteps>>_vars
SpecRun ==
    /\ InitRun /\ [][NextBook]_vars
    /\ WF_vars(ControlSteps)
    /\ ([]<>(~ContentStepPending) \/ []<><<ContentSteps>>_vars)

(***************************************************************************)
(* process_furigana on ruby spans of base/reading pairs                    *)
(***************************************************************************)
\* the most base/reading pairs in one ruby span
MaxPairs == 3

\* base<rt>reading</rt>: 漢 or 字, かん or じ
RubyPair(base, reading) == base \o <<"<rt>">> \o reading \o <<"</rt>">>

RubyPairPool ==
    {RubyPair(b, r) : b \in {<<"U6F22">>, <<"U5B57">>},
                      r \in {<<"U304B", "U3093">>, <<"U3058">>}}

\* A<ruby>pairs</ruby>B
RubyMarkups ==
    {<<"A", "<ruby>">> \o Concat(ps) \o <<"</ruby>", "B">> :
        ps \in SeqsUpTo(RubyPairPool, MaxPairs)}

\* html_content = self.process_furigana(html_content)
ApplyFurigana ==
    /\ chPc = "furigana"
    /\ chapter_text' = ProcessFurigana(combined_html, show_furigana)
    /\ chPc' = "furigana_done"
    /\ UNCHANGED <<chapter_files, extract_subchapters, split_no_subchapters, show_furigana,
                   combined_html, subchapters, written, split_calls>>
    /\ UNCHANGED navVars
    /\ UNCHANGED <<bookVars, bulkVars, runVars>>

InitFurigana ==
    /\ NavIdle
    /\ BookIdle
    /\ chapter_files = <<>>
    /\ extract_subchapters = FALSE
    /\ split_no_subchapters = FALSE
    /\ show_furigana \in BOOLEAN
    /\ combined_html \in RubyMarkups
    /\ subchapters = <<>>
    /\ chapter_text = <<>>
    /\ written = <<>>
    /\ split_calls = 0
    /\ chPc = "furigana"

NextFurigana == ApplyFurigana

SpecFurigana == InitFurigana /\ [][NextFurigana]_vars

(***************************************************************************)
(* Properties of the navigation resolver                                   *)
(***************************************************************************)
StrategyIndex(s) == CHOOSE i \in 1..Len(Strategies) : Strategies[i] = s

LastInvoked == invoked[Len(invoked)]

\* C1: the strategies are tried in the order nav.xhtml, navigation-documents.xhtml,
\* toc.ncx, embedded TOC; a strategy is tried only while every strategy tried
\* before it produced no marker; the returned list is the list of the one
\* strategy tried last, and no other strategy produced any marker.
C1_CascadeOrder ==
    /\ \A i \in 1..Len(invoked) : \A j \in (i + 1)..Len(invoked) :
           StrategyIndex(invoked[i]) < StrategyIndex(invoked[j])
    /\ \A i \in 1..(Len(invoked) - 1) : outputs[invoked[i]] = <<>>
    /\ pc # "done" => returned = <<>>
    /\ pc = "done" =>
           /\ invoked # <<>>
           /\ returned = outputs[LastInvoked]
           /\ \A s \in Range(Strategies) : s # LastInvoked => outputs[s] = <<>>
           /\ returned = <<>> => LastInvoked = "embedded"

\* three strategies were tried and the third produced the returned markers
C1_Witness ==
    /\ pc = "done"
    /\ invoked = <<"nav", "legacy", "ncx">>
    /\ Len(returned) = 2

\* C2 as stated: with nav.xhtml and toc.ncx both present, the result is the
\* nav document's markers and the NCX parser is never called.
C2_NavAlwaysWins ==
    (exists["nav"] /\ exists["ncx"] /\ pc = "done") =>
        /\ returned = ParseNavigationXhtml(docs["nav"])
        /\ "ncx" \notin Range(invoked)

\* C2, amended: with nav.xhtml and toc.ncx both present, once the nav document
\* has produced at least one marker the resolver has returned exactly those
\* markers and the NCX parser is never called; when the nav document and the
\* legacy navigation document produce no marker, the NCX parser is called.
C2_NavWinsWhenNonEmpty ==
    (exists["nav"] /\ exists["ncx"]) =>
        /\ pc # "nav" => "nav" \in Range(invoked)
        /\ ("nav" \in Range(invoked) /\ ParseNavigationXhtml(docs["nav"]) # <<>>) =>
               /\ pc = "done"
               /\ returned = ParseNavigationXhtml(docs["nav"])
               /\ "ncx" \notin Range(invoked)
        /\ (pc = "done" /\ outputs["nav"] = <<>> /\ outputs["legacy"] = <<>>) =>
               "ncx" \in Range(invoked)

\* both files exist, the nav document lists a denylisted link and a chapter,
\* and the resolver returned the chapter without reading the NCX
C2_Witness ==
    /\ exists["nav"] /\ exists["ncx"]
    /\ pc = "done"
    /\ docs["nav"].navs = <<[type |-> "toc",
                             links |-> <<Link(t_Cover, <<"cover.html">>),
                                         Link(t_Chapter1, <<"c1.html", "#", "sec1">>)>>]>>
    /\ Len(returned) = 1
    /\ docs["ncx"] = Unread

OnlyNcx ==
    exists["ncx"] /\ ~exists["nav"] /\ ~exists["legacyBase"] /\ ~exists["legacyItem"]

\* C3 as stated: with toc.ncx and no navigation document, the result equals the
\* list _parse_toc_ncx gives for that NCX, also when that list is empty.
C3_EqualsNcxAlways ==
    (OnlyNcx /\ pc = "done") => returned = ParseTocNcx(docs["ncx"])

\* C3, amended: with toc.ncx and no navigation document, the result equals the
\* list _parse_toc_ncx gives for that NCX when that list is not empty; when it
\* is empty the result is the list of the embedded-TOC heuristic.
C3_EqualsNcxWhenNonEmpty ==
    (OnlyNcx /\ pc = "done") =>
        /\ invoked[1] = "ncx"
        /\ ParseTocNcx(docs["ncx"]) # <<>> =>
               returned = ParseTocNcx(docs["ncx"]) /\ invoked = <<"ncx">>
        /\ ParseTocNcx(docs["ncx"]) = <<>> =>
               returned = ParseEmbeddedToc(spine_items)

\* only the NCX exists, it lists a denylisted point and a chapter, and the
\* resolver returned the chapter
C3_Witness ==
    /\ OnlyNcx
    /\ pc = "done"
    /\ docs["ncx"].points = <<Link(t_Uncover, <<"cover.html">>),
                              Link(t_Chapter1, <<"OEBPS/", "c1.html">>)>>
    /\ Len(returned) = 1

HoldsDeniedLabel(title) ==
    \/ Lower(title) = <<"c","o","v","e","r">>
    \/ \E k \in 1..Len(NavDenylist) : Contains(Lower(title), NavDenylist[k])

Segmented == chPc \in {"subchapters", "single", "done"}

\* the integer value of the numeral of a match
MatchValue(s, m) == IntOf(ConvertNumber(PatternAt(m[1], s, m[2]).num))

\* the matches find_subchapters_in_html detected whose value is in [1, 50]
RetainedMatches(s) ==
    LET Retained(m) == MatchValue(s, m) \in 1..50
    IN  SelectSeq(AllMatches(s), Retained)

SomeDiscarded(s) == Len(RetainedMatches(s)) < Len(AllMatches(s))

Contiguous(subs, length) ==
    /\ subs[1].start_pos = 0
    /\ \A i \in 1..(Len(subs) - 1) : subs[i].end_pos = subs[i + 1].start_pos
    /\ subs[Len(subs)].end_pos = length

\* C5: a non-empty subchapter list partitions the markup: the first span starts
\* at 0, every span ends where the next starts, the last span ends at
\* len(markup), also when some matches were discarded for their numeral.
C5_Contiguity ==
    (Segmented /\ subchapters # <<>>)
        => Contiguous(subchapters, StrLen(combined_html))

\* the part of C5 the code keeps: the spans are contiguous when no match was
\* discarded
C5_ContiguousWhenNoneDiscarded ==
    (Segmented /\ subchapters # <<>> /\ ~SomeDiscarded(combined_html))
        => Contiguous(subchapters, StrLen(combined_html))

\* C6: the subchapters are the markers whose numeral, full-width digits mapped
\* to ASCII and read as an integer, is in [1, 50], in order, and the number of
\* each subchapter is that integer.
C6_NumberIsInteger ==
    Segmented
        => /\ Len(subchapters) = Len(RetainedMatches(combined_html))
           /\ \A n \in 1..Len(subchapters) :
                  subchapters[n].number
                      = ToDecimal(MatchValue(combined_html, RetainedMatches(combined_html)[n]))

\* the part of C6 the code keeps: a marker is retained exactly when its value is
\* in [1, 50], and the number of a subchapter has the value of its marker
C6_RetainedByValue ==
    Segmented
        => /\ Len(subchapters) = Len(RetainedMatches(combined_html))
           /\ \A n \in 1..Len(subchapters) :
                  /\ IntOf(subchapters[n].number)
                         = MatchValue(combined_html, RetainedMatches(combined_html)[n])
                  /\ \A i \in 1..Len(subchapters[n].number) :
                         subchapters[n].number[i] \in AsciiDigits

\* the chunks written, in order
Bodies == [i \in 1..Len(written) |-> written[i].body]

\* split_and_save_text has been called and has returned
SplitDone == chPc = "done" /\ split_calls > 0

\* the paragraphs of every chunk, in order
ChunkParagraphs == Concat([i \in 1..Len(written) |-> SplitParagraphs(written[i].body)])

\* no paragraph of the text is empty or has white space at either end
NoEdgeSpace(text) ==
    \A i \in 1..Len(SplitParagraphs(text)) :
        /\ SplitParagraphs(text)[i] # <<>>
        /\ Strip(SplitParagraphs(text)[i]) = SplitParagraphs(text)[i]

LongChapterDone ==
    /\ chPc = "done"
    /\ subchapters = <<>>
    /\ split_no_subchapters
    /\ StrLen(chapter_text) > 18000

\* C8 as stated: such a chapter is written in at least 2 chunks.
C8_AtLeastTwoChunks ==
    LongChapterDone => Len(written) >= 2

\* C8: such a chapter is written in at least 2 chunks exactly when subchapter
\* extraction is enabled too and the text has at least two non-empty paragraphs
\* which, trimmed and joined, are longer than the target
\* ceil(len / ceil(len / 15000)); otherwise it is written in one file.
C8_TwoChunksIffParagraphs ==
    LongChapterDone
        => LET L == StrLen(chapter_text)
               paras == Paragraphs(chapter_text)
           IN  /\ Len(written) >= 1
               /\ Len(written) >= 2
                      <=> /\ extract_subchapters
                          /\ Len(paras) >= 2
                          /\ StrLen(JoinParagraphs(paras))
                                 > CeilDiv(L, CeilDiv(L, CHUNK_SIZE))

\* a long chapter of several paragraphs was written in several chunks
C8_Witness ==
    /\ LongChapterDone
    /\ extract_subchapters
    /\ Len(Paragraphs(chapter_text)) >= 2
    /\ Len(written) >= 2

\* C9 as stated: no chunk is longer than the target plus 2.
C9_ChunkBound ==
    SplitDone
        => \A i \in 1..Len(written) :
               StrLen(written[i].body) <= TargetChunkSize(chapter_text) + 2

\* C9: a chunk of two or more paragraphs is no longer than the target plus 2,
\* and the first chunk, when of two or more paragraphs, no longer than the
\* target; a chunk of one paragraph has the length of its paragraph.
C9_ChunkBoundSeveralParagraphs ==
    SplitDone
        => \A i \in 1..Len(written) :
               Len(SplitParagraphs(written[i].body)) >= 2
                   => /\ StrLen(written[i].body) <= TargetChunkSize(chapter_text) + 2
                      /\ i = 1 => StrLen(written[i].body) <= TargetChunkSize(chapter_text)

\* a chunk of two paragraphs is exactly 2 longer than the target
C9_Witness ==
    /\ SplitDone
    /\ \E i \in 1..Len(written) :
           /\ Len(SplitParagraphs(written[i].body)) >= 2
           /\ StrLen(written[i].body) = TargetChunkSize(chapter_text) + 2

\* C10: split_and_save_text is called only for a chapter without subchapters
\* whose text is longer than 18000, splitting enabled; any other chapter with
\* text is written as its subchapters or as one file holding the whole text.
C10_SplitOnlyWhenLong ==
    /\ split_calls > 0
           => /\ subchapters = <<>>
              /\ extract_subchapters
              /\ split_no_subchapters
              /\ StrLen(chapter_text) > 18000
    /\ (chPc = "done" /\ subchapters # <<>>)
           => /\ split_calls = 0
              /\ Len(written) <= Len(subchapters)
    /\ (chPc = "done" /\ subchapters = <<>> /\ chapter_text # <<>>
            /\ StrLen(chapter_text) <= 18000)
           => /\ split_calls = 0
              /\ written = <<File(IF extract_subchapters THEN <<"1">> ELSE <<"Chapter">>,
                                  chapter_text)>>

\* a text one character longer than 18000 was handed to the splitter
C10_Witness ==
    /\ split_calls = 1
    /\ subchapters = <<>>
    /\ StrLen(chapter_text) = 18001

\* a text of exactly 18000 was written as one file, splitting enabled
C10_AtThreshold ==
    /\ chPc = "done"
    /\ extract_subchapters
    /\ split_no_subchapters
    /\ StrLen(chapter_text) = 18000
    /\ split_calls = 0

(***************************************************************************)
(* Properties of process_furigana                                          *)
(***************************************************************************)
\* base（reading） for each pair of a ruby span, in order
RECURSIVE EachPair(_)
EachPair(ruby_content) ==
    LET i == IndexFrom(ruby_content, "<rt>", 1)
        j == IndexFrom(ruby_content, "</rt>", i + 1)
    IN  IF j > Len(ruby_content) THEN ruby_content
        ELSE SubSeq(ruby_content, 1, i - 1)
             \o <<"UFF08">> \o SubSeq(ruby_content, i + 1, j - 1) \o <<"UFF09">>
             \o EachPair(SubSeq(ruby_content, j + 1, Len(ruby_content)))

\* the base texts of a ruby span, in order
RECURSIVE EachBase(_)
EachBase(ruby_content) ==
    LET i == IndexFrom(ruby_content, "<rt>", 1)
        j == IndexFrom(ruby_content, "</rt>", i + 1)
    IN  IF j > Len(ruby_content) THEN ruby_content
        ELSE SubSeq(ruby_content, 1, i - 1)
             \o EachBase(SubSeq(ruby_content, j + 1, Len(ruby_content)))

\* the content of the ruby span of A<ruby>...</ruby>B
RubyContent(markup) == SubSeq(markup, 3, Len(markup) - 2)

\* the number of pairs in a ruby span
PairCount(ruby_content) == Cardinality({i \in 1..Len(ruby_content) : ruby_content[i] = "<rt>"})

\* C13: for a ruby span of base/reading pairs, process_furigana emits
\* base（reading） for each pair in order when furigana is enabled, and the base
\* texts only when it is disabled.
C13_EachPair ==
    chPc = "furigana_done"
        => chapter_text
               = <<"A">>
                 \o (IF show_furigana THEN EachPair(RubyContent(combined_html))
                     ELSE EachBase(RubyContent(combined_html)))
                 \o <<"B">>

\* the part of C13 the code keeps: a span of one pair, and furigana disabled
C13_OnePairOrDisabled ==
    (chPc = "furigana_done"
        /\ (~show_furigana \/ PairCount(RubyContent(combined_html)) <= 1))
        => chapter_text
               = <<"A">>
                 \o (IF show_furigana THEN EachPair(RubyContent(combined_html))
                     ELSE EachBase(RubyContent(combined_html)))
                 \o <<"B">>

\* A<ruby>漢<rt>かん</rt></ruby>B gave A漢（かん）B
C13_Example ==
    /\ chPc = "furigana_done"
    /\ show_furigana
    /\ combined_html = <<"A", "<ruby>", "U6F22", "<rt>", "U304B", "U3093", "</rt>", "</ruby>", "B">>
    /\ chapter_text = <<"A", "U6F22", "UFF08", "U304B", "U3093", "UFF09", "B">>

\* the navigation file a strategy reads
FileOf(strategy) ==
    CASE strategy = "nav" -> "nav"
      [] strategy = "legacy" -> LegacyPath
      [] strategy = "ncx" -> "ncx"

\* C15: a navigation document or NCX that exists and does not parse gives its
\* strategy zero markers, and parse_navigation_file goes on with a later
\* strategy of the cascade.
C15_ParseFailureCascades ==
    \A k \in 1..Len(invoked) :
        (invoked[k] # "embedded" /\ ~docs[FileOf(invoked[k])].parses)
            => /\ outputs[invoked[k]] = <<>>
               /\ IF pc = "done"
                  THEN k < Len(invoked)
                  ELSE StrategyIndex(pc) > StrategyIndex(invoked[k])

\* nav.xhtml held a link and did not parse, and a later strategy was called
C15_Witness ==
    /\ Len(invoked) >= 2
    /\ invoked[1] = "nav"
    /\ docs["nav"] = BrokenNav
    /\ outputs["nav"] = <<>>

(***************************************************************************)
(* Properties of parse_opf_file                                            *)
(***************************************************************************)
\* the package description is found and parses
Readable(package) ==
    package.container # "unparsable" /\ package.found /\ package.parses

\* the first of the three candidates that exists, the first when none does
FirstExisting(href) ==
    LET there == {k \in 1..3 : PossiblePaths(href)[k] \in disk}
    IN  IF there # {} THEN PossiblePaths(href)[Min(there)] ELSE href

\* C18: the path of every manifest item is the first of base/href,
\* base/OEBPS/href, base/item/xhtml/href that exists, base/href when none
\* does, and resolving the paths never raises.
C18_FirstExistingCandidate ==
    /\ (bkPc # "start" /\ Readable(opf)) => raised = ""
    /\ bkPc = "loaded"
           => \A id \in DOMAIN manifest_items :
                  manifest_items[id].full_path = FirstExisting(manifest_items[id].href)

\* the part of C18 the code keeps: an href that begins with OEBPS/ or item/ is
\* taken as it is, any other href is resolved as C18 says
C18_UnlessPrefixed ==
    bkPc = "loaded"
        => \A id \in DOMAIN manifest_items :
               manifest_items[id].full_path
                   = IF manifest_items[id].href[1] \in {"OEBPS/", "item/"}
                     THEN manifest_items[id].href
                     ELSE FirstExisting(manifest_items[id].href)

\* the ids of the items in self.chapters
ChapterIds == {id \in DOMAIN manifest_items : manifest_items[id] \in Range(chapters)}

\* C20 as stated: every manifest item is chapter content or resource, never both.
C20_Partition ==
    bkPc = "loaded"
        => /\ ChapterIds \cap DOMAIN resources = {}
           /\ ChapterIds \cup DOMAIN resources = DOMAIN manifest_items

\* C20: no manifest item is both chapter content and resource; the resources
\* are the manifest items of another media type than application/xhtml+xml and
\* text/html, and the chapter content is the items of the spine of these two
\* types, in spine order; an item of these types that no itemref names is in
\* neither class.
C20_ClassesByTypeAndSpine ==
    bkPc = "loaded"
        => /\ ChapterIds \cap DOMAIN resources = {}
           /\ DOMAIN resources
                  = {id \in DOMAIN manifest_items :
                        manifest_items[id].media_type
                            \notin {"application/xhtml+xml", "text/html"}}
           /\ \A id \in DOMAIN resources : resources[id] = manifest_items[id]
           /\ ChapterIds
                  = {id \in DOMAIN manifest_items :
                        /\ manifest_items[id].media_type
                               \in {"application/xhtml+xml", "text/html"}
                        /\ id \in Range(opf.itemrefs)}
           /\ chapters = SelectSeq(spine_items, IsContent)

\* a package was loaded with a resource and with an HTML item outside the spine
C20_Witness ==
    /\ bkPc = "loaded"
    /\ DOMAIN resources # {}
    /\ \E id \in DOMAIN manifest_items : id \notin ChapterIds \cup DOMAIN resources

(***************************************************************************)
(* The book: extract_chapters                                              *)
(***************************************************************************)
\* the places in the itemref list whose idref is an id of the manifest
Resolved == {k \in 1..Len(opf.itemrefs) : opf.itemrefs[k] \in DOMAIN manifest_items}

\* C19: once the package is loaded, and whatever was done afterwards
\* (navigation resolution with the sort of the embedded table of contents,
\* chapter file selection, the fallback), the spine is the itemref list without
\* the references that name no manifest item, in the order of the itemrefs
C19_SpineIsResolvedItemrefs ==
    bkPc # "start" =>
        /\ Len(spine_items) = Cardinality(Resolved)
        /\ \A j \in 1..Len(spine_items) :
               spine_items[j] = manifest_items[opf.itemrefs[Sorted(Resolved)[j]]]

\* a book with an unresolved and a repeated itemref whose markers came from the
\* embedded table of contents, sorted by the spine, and were all handled
C19_Witness ==
    /\ bkPc = "done"
    /\ "embedded" \in Range(invoked)
    /\ Len(returned) >= 2
    /\ marker_i = Len(returned)
    /\ Len(spine_items) < Len(opf.itemrefs)
    /\ \E j, k \in 1..Len(spine_items) : j # k /\ spine_items[j] = spine_items[k]

\* the navigation document of the example: "Prologue" -> p.html and
\* "Chapter 1" -> c1.html#sec1
ExampleNav ==
    [parses |-> TRUE,
     navs |-> <<[type |-> "toc",
                 links |-> << Link(t_Prologue, <<"p.html">>),
                              Link(t_Chapter1, <<"c1.html", "#", "sec1">>) >>]>>,
     points |-> <<>>]

\* a book with the spine [cover.html, p.html, c1.html, c2.html] whose nav.xhtml
\* is the document of the example, extracted to the end
ExampleDone ==
    /\ \E prefix \in Prefixes : opf = PlainBook(prefix)
    /\ docs["nav"] = ExampleNav
    /\ bkPc = "done"

\* the markers of the example, in their order
ExampleMarkers ==
    /\ Len(returned) = 2
    /\ returned[1].title = t_Prologue /\ returned[1].file = <<"p.html">>
    /\ returned[1].anchor = None
    /\ returned[2].title = t_Chapter1 /\ returned[2].file = <<"c1.html">>
    /\ returned[2].anchor = <<"sec1">>

\* the file names of a chapter's files
FileNames(items) == [k \in 1..Len(items) |-> PathName(items[k].href)[1]]

\* C11: in the example the two markers are returned in their order, the files of
\* chapter "Prologue" are [p.html] and the files of chapter 1 are [c1.html]
C11_Example ==
    ExampleDone =>
        /\ ExampleMarkers
        /\ Len(file_sets) = 2
        /\ FileNames(file_sets[1]) = <<"p.html">>
        /\ FileNames(file_sets[2]) = <<"c1.html">>

\* C11, amended: in the example the two markers are returned in their order, the
\* files of chapter "Prologue" are [p.html], and the files of chapter 1, the
\* last chapter, are [c1.html, c2.html]: it runs to the end of the spine
C11_LastChapterToEndOfSpine ==
    ExampleDone =>
        /\ ExampleMarkers
        /\ Len(file_sets) = 2
        /\ FileNames(file_sets[1]) = <<"p.html">>
        /\ FileNames(file_sets[2]) = <<"c1.html", "c2.html">>

\* the example, extracted to the end with its index written
C11_Witness == ExampleDone /\ marker_i = 2 /\ index_written /\ Len(written) >= 2

\* the file name a marker targets: its href without anchor and directories
TargetName(marker) == PathName(FilePart(marker.href))

\* the content items of the spine with a file name
ItemsNamed(name) ==
    {i \in 1..Len(spine_items) :
        IsContent(spine_items[i]) /\ PathName(spine_items[i].href) = name}

\* C12: a marker and a content item of the spine with the same file name are the
\* same chapter, whatever the directories in the marker's target and in the
\* item's href: the files of the marker's chapter begin with that item
C12_FileNameOnly ==
    \A k \in 1..Len(file_sets) :
        ItemsNamed(TargetName(returned[k])) # {} =>
            /\ file_sets[k] # <<>>
            /\ file_sets[k][1] = spine_items[Min(ItemsNamed(TargetName(returned[k])))]

\* the same for the marker targets the parsers and create_chapter_text_files
\* reduce to a file name: no directory, OEBPS/, xhtml/ or OEBPS/xhtml/
C12_KnownPrefixes ==
    \A k \in 1..Len(file_sets) :
        /\ ItemsNamed(TargetName(returned[k])) # {}
        /\ FilePart(returned[k].href) \in
               {prefix \o TargetName(returned[k]) :
                    prefix \in {<<>>, <<"OEBPS/">>, <<"xhtml/">>, <<"OEBPS/", "xhtml/">>}}
        => /\ file_sets[k] # <<>>
           /\ file_sets[k][1] = spine_items[Min(ItemsNamed(TargetName(returned[k])))]

\* a marker targeting xhtml/c1.html matched with the spine item OEBPS/c1.html
C12_Example ==
    \E k \in 1..Len(file_sets) :
        /\ FilePart(returned[k].href) = <<"xhtml/", "c1.html">>
        /\ file_sets[k] # <<>>
        /\ file_sets[k][1].href = <<"OEBPS/", "c1.html">>

(***************************************************************************)
(* The batch: bulk_extract_epubs                                           *)
(***************************************************************************)
\* the books handed to an extractor whose extract_chapters has not returned or
\* raised yet
InProgress == IF book_i > 0 /\ bkPc # "idle" THEN 1 ELSE 0

\* C14: the books found are in sorted order without repetition; the books
\* attempted so far are the first book_i of them, each once and in that order,
\* whatever became of the earlier ones; every book that was attempted and is over
\* is counted as extracted or as failed, and the loop stops only when every
\* book was attempted, with successful_extractions + failed_extractions the
\* number of books found
C14_EveryBookOnce ==
    /\ \A i, j \in 1..Len(epub_files) : i < j => epub_files[i] < epub_files[j]
    /\ book_i <= Len(epub_files)
    /\ attempted = SubSeq(epub_files, 1, book_i)
    /\ successful_extractions + failed_extractions = book_i - InProgress
    /\ (bkPc = "idle" /\ ~ENABLED StartBook) =>
           /\ attempted = epub_files
           /\ successful_extractions + failed_extractions = Len(epub_files)

\* a batch of two books that is over: the first book failed, the second was
\* extracted
C14_Witness ==
    /\ Len(epub_files) = 2
    /\ bkPc = "idle" /\ book_i = 2
    /\ failed_extractions = 1 /\ successful_extractions = 1
    /\ raised = "" /\ written # <<>>

\* extract_chapters was called for the book in opf, has taken its source and
\* is past the package
Attempted ==
    /\ bkPc \notin {"begin", "start"}
    /\ source_dir # "None"
    /\ bkPc = "idle" => book_i > 0

\* C16: when no package description is found, or the one found does not parse,
\* extract_chapters raises: the book is never loaded or done, no navigation
\* strategy is tried, no chapter is selected, no file and no index is written,
\* and in a batch the book is counted as failed
C16_PackageFatal ==
    (Attempted /\ (~opf.found \/ ~opf.parses)) =>
        /\ bkPc \in {"failed", "idle"}
        /\ raised \in {"FileNotFoundError", "ParseError"}
        /\ invoked = <<>> /\ pc = "idle" /\ returned = <<>>
        /\ marker_i = 0 /\ file_sets = <<>>
        /\ written = <<>>
        /\ ~index_written
        /\ (bkPc = "idle" => failed_extractions >= 1)

\* a book whose package description does not parse has failed, and so has one
\* without package description
C16_Witness ==
    /\ bkPc = "failed"
    /\ opf.container = "ok"
    /\ \/ opf.found /\ ~opf.parses /\ raised = "ParseError"
       \/ ~opf.found /\ raised = "FileNotFoundError"

\* extract_chapters has returned for the book, without markers
FallbackDone ==
    /\ bkPc = "done" \/ (bkPc = "idle" /\ book_i > 0 /\ raised = "")
    /\ returned = <<>>

\* the spine items a written file may be the file of: content items, named by
\* their place in the spine and their file name
UnitsOf(file) ==
    {i \in 1..Len(spine_items) :
        /\ IsContent(spine_items[i])
        /\ file.name = <<"Part">> \o Pad2(i) \o PathName(spine_items[i].full_path)}

\* C17: when the Resolver returned no marker, each file written is the whole
\* text of one content item of the spine, the files are in spine order with at
\* most one per item, no subchapter was searched for and split_and_save_text
\* was not called, with subchapter extraction and chunk splitting enabled too,
\* and no index is written
C17_FallbackPerSpineItem ==
    FallbackDone =>
        /\ \A k \in 1..Len(written) :
               /\ UnitsOf(written[k]) # {}
               /\ \A i \in UnitsOf(written[k]) :
                      written[k].body
                          = HtmlToText(MarkupOf(spine_items[i].full_path), show_furigana)
        /\ \A k, l \in 1..Len(written) :
               k < l => \A i \in UnitsOf(written[k]), j \in UnitsOf(written[l]) : i < j
        /\ chPc = "idle" /\ subchapters = <<>> /\ combined_html = <<>>
        /\ split_calls = 0
        /\ marker_i = 0 /\ file_sets = <<>>
        /\ ~index_written

\* the fallback with both options enabled, on a spine with a blank document, a
\* document with a subchapter heading and a document longer than a chunk
C17_Witness ==
    /\ FallbackDone
    /\ extract_subchapters /\ split_no_subchapters
    /\ Len(written) = 3
    /\ \E k \in 1..Len(written) : ExceedsTolerance(written[k].body)
    /\ \E i \in 1..Len(spine_items) :
           /\ IsContent(spine_items[i])
           /\ FindSubchaptersInHtml(MarkupOf(spine_items[i].full_path)) # <<>>
    /\ Len(SelectSeq(spine_items, IsContent)) > Len(written)

(***************************************************************************)
(* The embedded table of contents                                          *)
(***************************************************************************)
\* the links of a document whose text matches the chapter-heading patterns
MatchingLinks(doc) ==
    {i \in 1..Len(doc.links) :
        /\ doc.links[i].href # <<>>
        /\ LinkPattern1(doc.links[i].text) \/ LinkPattern2(doc.links[i].text)}

\* the content documents of the spine that hold a link a marker was made of
SourcesOf(marker) ==
    {i \in 1..Len(spine_items) :
        /\ IsContent(spine_items[i]) /\ spine_items[i].doc.exists
        /\ \E k \in 1..Len(spine_items[i].doc.links) :
               /\ spine_items[i].doc.links[k].href = marker.href
               /\ Strip(spine_items[i].doc.links[k].text) = marker.title}

\* C21: every marker of the embedded table of contents comes from a document
\* of the spine with at least three links whose text matches the
\* chapter-heading patterns
C21_AtLeastThreeLinks ==
    \A k \in 1..Len(outputs["embedded"]) :
        \E i \in SourcesOf(outputs["embedded"][k]) :
            Cardinality(MatchingLinks(spine_items[i].doc)) >= MinChapterLinks

\* the same with the count of _has_chapter_links, which counts a link once for
\* each of its two patterns, and with the word CONTENTS as a second way in
C21_ThreeMatchesOrContents ==
    \A k \in 1..Len(outputs["embedded"]) :
        \E i \in SourcesOf(outputs["embedded"][k]) :
            \/ ChapterCount(spine_items[i].doc.links) >= MinChapterLinks
            \/ HasContentsWord(spine_items[i].doc)

\* markers from a page with two chapter links and nothing else
C21_TwoLinksAccepted ==
    /\ Len(outputs["embedded"]) = 2
    /\ \A i \in 1..Len(spine_items) :
           IsContent(spine_items[i]) /\ spine_items[i].doc.exists
               => Cardinality(MatchingLinks(spine_items[i].doc)) <= 2
    /\ \A i \in 1..Len(spine_items) : ~HasContentsWord(spine_items[i].doc)

\* the (target file, anchor) of a marker
KeyOf(marker) == <<marker.file, marker.anchor>>

\* the place in the pooled links of the first marker with the key of marker
FirstPooled(marker, pool) == Min({i \in 1..Len(pool) : KeyOf(pool[i]) = KeyOf(marker)})

\* the result is the pooled links without repetition of a key, the first of
\* each key kept
DeduplicatedFrom(out, pool) ==
    /\ {KeyOf(out[k]) : k \in 1..Len(out)} = {KeyOf(pool[i]) : i \in 1..Len(pool)}
    /\ \A k, l \in 1..Len(out) : k # l => KeyOf(out[k]) # KeyOf(out[l])
    /\ \A k \in 1..Len(out) : out[k] = pool[FirstPooled(out[k], pool)]

\* the places in the spine of the file name a marker targets
PlacesOf(marker) ==
    {i \in 1..Len(spine_items) : PathName(spine_items[i].href) = PathName(marker.file)}

\* the places in the spine of the items whose file name is the marker's target
\* as it is written, directories included
PlacesOfWritten(marker) ==
    {i \in 1..Len(spine_items) : PathName(spine_items[i].href) = marker.file}

\* C22: the embedded table of contents is the pooled links without duplicates
\* by (file, anchor), the first kept, in the order of the spine places of the
\* file names they target; the markers whose file name is not in the spine come
\* last, and markers of the same place keep their pooled order
C22_DedupInSpineOrder ==
    "embedded" \in Range(invoked) =>
        LET out == outputs["embedded"]
            pool == PooledMarkers(spine_items)
        IN  /\ DeduplicatedFrom(out, pool)
            /\ \A k, l \in 1..Len(out) :
                   k < l =>
                       /\ PlacesOf(out[k]) = {} => PlacesOf(out[l]) = {}
                       /\ (PlacesOf(out[k]) # {} /\ PlacesOf(out[l]) # {})
                              => Max(PlacesOf(out[k])) <= Max(PlacesOf(out[l]))
                       /\ PlacesOf(out[k]) = PlacesOf(out[l])
                              => FirstPooled(out[k], pool) < FirstPooled(out[l], pool)

\* the same order with the marker's target taken as written: a target with a
\* directory counts as not in the spine
C22_DedupInWrittenOrder ==
    "embedded" \in Range(invoked) =>
        LET out == outputs["embedded"]
            pool == PooledMarkers(spine_items)
        IN  /\ DeduplicatedFrom(out, pool)
            /\ \A k, l \in 1..Len(out) :
                   k < l =>
                       /\ PlacesOfWritten(out[k]) = {} => PlacesOfWritten(out[l]) = {}
                       /\ (PlacesOfWritten(out[k]) # {} /\ PlacesOfWritten(out[l]) # {})
                              => Max(PlacesOfWritten(out[k])) <= Max(PlacesOfWritten(out[l]))
                       /\ PlacesOfWritten(out[k]) = PlacesOfWritten(out[l])
                              => FirstPooled(out[k], pool) < FirstPooled(out[l], pool)

\* three markers, one of them outside the spine, and a duplicate removed
C22_ThreeMarkers ==
    /\ "embedded" \in Range(invoked)
    /\ Len(outputs["embedded"]) >= 3
    /\ \E k \in 1..Len(outputs["embedded"]) : PlacesOf(outputs["embedded"][k]) = {}

C22_DuplicateRemoved ==
    /\ "embedded" \in Range(invoked)
    /\ Len(outputs["embedded"]) >= 2
    /\ Len(PooledMarkers(spine_items)) > Len(outputs["embedded"])

(***************************************************************************)
(* The spans of find_subchapters_in_html                                   *)
(***************************************************************************)
\* every occurrence of every pattern in the markup: (pattern, token index)
Occurrences == {m \in (1..NumPatterns) \X (1..Len(combined_html)) :
                   PatternAt(m[1], combined_html, m[2]).ok}

\* m comes before n: by start offset, equal offsets by the order of the patterns
Before(m, n) == m[2] < n[2] \/ (m[2] = n[2] /\ m[1] < n[1])

\* where the span of occurrence m ends: the offset of the next occurrence, or
\* the length of the markup
SpanEnd(m) ==
    LET later == {n \in Occurrences : Before(m, n)}
    IN  IF later = {} THEN StrLen(combined_html)
        ELSE Min({OffsetOf(combined_html, n[2]) : n \in later})

\* the occurrence subchapter j is the span of, given the occurrences with a
\* numeral in [1, 50] in their order
RetainedOccurrences == {m \in Occurrences : MatchValue(combined_html, m) \in 1..50}

Rank(m) == Cardinality({n \in RetainedOccurrences : Before(n, m)}) + 1

C24_ChunkCountIsComputed ==
    SplitDone => Len(written) = NumChunks(chapter_text)

\* current_chunk_len when chunk i is closed: the first chunk counts a separator
\* after each of its paragraphs, a later chunk one between its paragraphs
ClosedLen(i) == StrLen(written[i].body) + (IF i = 1 THEN 2 ELSE 0)

\* C24, amended: the chunks are filled with whole paragraphs one after the
\* other, and a chunk is closed only when the next paragraph would take it over
\* the target ceil(len / ceil(len / 15000)); so there is at least one chunk, no
\* more chunks than non-empty paragraphs, and no more than twice the computed
\* count plus one
C24_GreedyChunks ==
    SplitDone =>
        /\ Len(written) >= 1
        /\ Len(written) <= Len(Paragraphs(chapter_text))
        /\ Len(written) <= 2 * NumChunks(chapter_text) + 1
        /\ \A i \in 1..(Len(written) - 1) :
               ClosedLen(i) + StrLen(SplitParagraphs(written[i + 1].body)[1])
                   > TargetChunkSize(chapter_text)

\* three chunks where the computed count is two, and a chunk of two paragraphs
C24_Witness ==
    /\ SplitDone
    /\ NumChunks(chapter_text) = 2
    /\ Len(written) = 3

C24_FewerChunks == SplitDone /\ Len(written) < NumChunks(chapter_text)

C24_TwoParagraphChunk ==
    /\ SplitDone
    /\ Len(written) = NumChunks(chapter_text)
    /\ \E i \in 1..Len(written) : Len(SplitParagraphs(written[i].body)) >= 2

(***************************************************************************)
(* Files of a chapter that are not on disk                                 *)
(***************************************************************************)
\* chapter k has a file in its file set that is not on disk
MissingFile(k) == \E j \in 1..Len(file_sets[k]) : file_sets[k][j].full_path \notin disk

\* chapter k has a file whose name the file system refuses
RefusedFile(k) == \E j \in 1..Len(file_sets[k]) : TooLong(file_sets[k][j].full_path)

\* C25: when a file of a chapter is not on disk only that file is skipped: no
\* exception is raised, and the run goes on to handle every marker and to
\* write the index
C25_MissingFileSkipped ==
    (\E k \in 1..Len(file_sets) : MissingFile(k)) =>
        /\ raised = ""
        /\ bkPc # "failed"
        /\ bkPc = "done" => (marker_i = Len(returned) /\ index_written)

\* what holds of C25: a missing file whose name the file system accepts is
\* skipped, and the chapter is the text of the files that are there
C25_AbsentFileSkipped ==
    ((\E k \in 1..Len(file_sets) : MissingFile(k))
         /\ \A k \in 1..Len(file_sets) : ~RefusedFile(k)) =>
        /\ raised = ""
        /\ bkPc = "done" => (marker_i = Len(returned) /\ index_written)
        /\ (chPc = "done" /\ ~extract_subchapters) =>
               chapter_text = ExtractChapterText(
                   SelectSeq(chapter_files, LAMBDA f : f.exists))

\* a chapter of two files, the second not on disk, has been written from the
\* first, and the book is finished
C25_SkippedAndFinished ==
    /\ bkPc = "done" /\ index_written
    /\ \E k \in 1..Len(file_sets) :
           /\ MissingFile(k) /\ ~RefusedFile(k)
           /\ \E j \in 1..Len(file_sets[k]) : file_sets[k][j].full_path \in disk
    /\ written # <<>>

\* the run has failed on a chapter file that is not on disk
C25_RaisedOnMissingFile ==
    /\ bkPc = "failed" /\ raised = "OSError"
    /\ marker_i >= 1 /\ MissingFile(marker_i) /\ RefusedFile(marker_i)

(***************************************************************************)
(* Markers whose file is not in the spine                                  *)
(***************************************************************************)
\* the marker's file name, as create_chapter_text_files looks it up, is the
\* name of a content item of the spine
InSpine(marker, spine) ==
    \E i \in 1..Len(spine) :
        IsContent(spine[i]) /\ PathName(spine[i].href) = StripXhtml(marker.file)

\* the markers that are in the spine, in their order
MarkersInSpine(markers, spine) == SelectSeq(markers, LAMBDA m : InSpine(m, spine))

\* how many of the first k markers are in the spine
PlaceInSpine(markers, k, spine) == Len(MarkersInSpine(SubSeq(markers, 1, k), spine))

\* C26: a marker whose file is in no content item of the spine gets an empty
\* file set and raises nothing, and every other marker has the file set it
\* has when the list holds the markers in the spine only
C26_StrayMarkerIsHarmless ==
    \A k \in 1..Len(file_sets) :
        IF InSpine(returned[k], spine_items)
        THEN file_sets[k] =
                 GetChapterFiles(StripXhtml(returned[k].file),
                                 NextStartFile(MarkersInSpine(returned, spine_items),
                                               PlaceInSpine(returned, k, spine_items)),
                                 spine_items)
        ELSE file_sets[k] = <<>> /\ (marker_i = k => raised = "")

\* what holds of C26: the marker gets an empty file set, nothing is raised for
\* it, and the markers after it are handled
C26_StrayMarkerIsEmpty ==
    \A k \in 1..Len(file_sets) :
        ~InSpine(returned[k], spine_items) =>
            /\ file_sets[k] = <<>>
            /\ (marker_i = k) => raised = ""
            /\ bkPc = "done" => (marker_i = Len(returned) /\ index_written)

\* a finished book with a marker out of the spine between two markers in it
C26_StrayBetween ==
    /\ bkPc = "done" /\ Len(file_sets) = 3
    /\ InSpine(returned[1], spine_items)
    /\ ~InSpine(returned[2], spine_items)
    /\ InSpine(returned[3], spine_items)
    /\ file_sets[2] = <<>>

(***************************************************************************)
(* The file sets of distinct markers                                       *)
(***************************************************************************)
\* no item is in the spine twice
SpineWithoutRepeats ==
    \A i, j \in 1..Len(spine_items) : spine_items[i] = spine_items[j] => i = j

\* the file sets of markers k and l have no item in common
Disjoint(k, l) == Range(file_sets[k]) \cap Range(file_sets[l]) = {}

\* the first place in the spine of the content item marker k names, 0 when
\* there is none
FirstPlace(k) ==
    LET places == {i \in 1..Len(spine_items) :
                      /\ IsContent(spine_items[i])
                      /\ PathName(spine_items[i].href) = StripXhtml(returned[k].file)}
    IN  IF places = {} THEN 0 ELSE Min(places)

\* C27: the file sets of distinct markers are pairwise disjoint, whatever the
\* order of the markers and also for two markers into one file
C27_FileSetsDisjoint ==
    SpineWithoutRepeats =>
        \A k, l \in 1..Len(file_sets) : k # l => Disjoint(k, l)

\* what holds of C27: the file sets are pairwise disjoint when every marker is
\* in the spine and the markers are in strictly ascending spine order
C27_AscendingDisjoint ==
    (/\ SpineWithoutRepeats
     /\ \A k \in 1..Len(returned) : FirstPlace(k) > 0
     /\ \A k \in 1..(Len(returned) - 1) : FirstPlace(k) < FirstPlace(k + 1)) =>
        \A k, l \in 1..Len(file_sets) : k # l => Disjoint(k, l)

\* two markers in ascending order have got their file sets
C27_TwoAscending ==
    /\ SpineWithoutRepeats
    /\ Len(file_sets) = 2 /\ Len(returned) = 2
    /\ FirstPlace(1) > 0 /\ FirstPlace(1) < FirstPlace(2)
    /\ file_sets[1] # <<>> /\ file_sets[2] # <<>>

\* two markers into one file with different anchors share their files
C27_SameFileShared ==
    /\ SpineWithoutRepeats
    /\ Len(file_sets) = 2
    /\ returned[1].file = returned[2].file /\ returned[1].anchor # returned[2].anchor
    /\ ~Disjoint(1, 2)

\* two markers in descending spine order share files
C27_DescendingShared ==
    /\ SpineWithoutRepeats
    /\ Len(file_sets) = 2
    /\ FirstPlace(2) > 0 /\ FirstPlace(2) < FirstPlace(1)
    /\ ~Disjoint(1, 2)

(***************************************************************************)
(* The files of one chapter                                                *)
(***************************************************************************)
\* the place of the first content item after that of marker k which has the
\* file name of marker k + 1; the place after the spine when there is none
NextPlace(k) ==
    LET later == {i \in 1..Len(spine_items) :
                     /\ i > FirstPlace(k)
                     /\ k < Len(returned)
                     /\ IsContent(spine_items[i])
                     /\ PathName(spine_items[i].href) = StripXhtml(returned[k + 1].file)}
    IN  IF later = {} THEN Len(spine_items) + 1 ELSE Min(later)

\* the places of the content items from one place up to another, excluded
ContentPlaces(from, to) == {i \in from..(to - 1) : IsContent(spine_items[i])}

\* C28: the file set of a marker that is in the spine is the content items
\* from the first item of its file name up to the first later item of the next
\* marker's file name, that item excluded, and up to the end of the spine when
\* there is no next marker or no such later item
C28_FromStartUpToNext ==
    \A k \in 1..Len(file_sets) :
        FirstPlace(k) > 0 =>
            file_sets[k] =
                [j \in 1..Cardinality(ContentPlaces(FirstPlace(k), NextPlace(k))) |->
                    spine_items[Sorted(ContentPlaces(FirstPlace(k), NextPlace(k)))[j]]]

\* a chapter of several files that ends before the file of the next marker,
\* and a last chapter that ends with the spine
C28_Witness ==
    /\ Len(file_sets) = 2
    /\ FirstPlace(1) > 0 /\ NextPlace(1) <= Len(spine_items)
    /\ Len(file_sets[1]) >= 2
    /\ NextPlace(1) = FirstPlace(2)
    /\ FirstPlace(2) > 0 /\ file_sets[2] # <<>>

\* a chapter that runs to the end of the spine because the file of the next
\* marker does not come later
C28_NextNotLater ==
    /\ Len(file_sets) >= 1 /\ Len(returned) >= 2
    /\ FirstPlace(1) > 0 /\ FirstPlace(2) > 0 /\ FirstPlace(2) <= FirstPlace(1)
    /\ NextPlace(1) = Len(spine_items) + 1
    /\ Len(file_sets[1]) >= 2

(***************************************************************************)
(* The files of the subchapters of one chapter                             *)
(***************************************************************************)
\* the subchapters of the chapter have been written
SubchaptersWritten == chPc = "done" /\ subchapters # <<>>

\* the subchapters that get a file: those whose text is not empty
WithText == {j \in 1..Len(subchapters) : SubchapterFile(subchapters[j]) # <<>>}

\* C29: every subchapter with text is written to a file of its own: no two
\* files of the chapter folder have the same name, so that no text is
\* overwritten by that of a later subchapter of the same number
C29_OwnFilePerSubchapter ==
    SubchaptersWritten =>
        /\ Len(written) = Cardinality(WithText)
        /\ \A i, j \in 1..Len(written) : written[i].name = written[j].name => i = j

\* what holds of C29: subchapters with text and different numbers are written
\* to different files
C29_OwnFilePerNumber ==
    SubchaptersWritten =>
        /\ Len(written) = Cardinality(WithText)
        /\ \A i, j \in WithText :
               subchapters[i].number # subchapters[j].number =>
                   SubchapterFile(subchapters[i])[1].name
                       # SubchapterFile(subchapters[j])[1].name

\* the file of the first subchapter, which holds the opening of the chapter,
\* is written again for the second subchapter
C29_OpeningOverwritten ==
    /\ SubchaptersWritten
    /\ Len(written) >= 2
    /\ 1 \in WithText /\ 2 \in WithText
    /\ written[1].name = written[2].name
    /\ written[1].body # written[2].body

(***************************************************************************)
(* The end of a run                                                        *)
(***************************************************************************)
\* extract_chapters has returned or raised
RunEnded == bkPc \in {"done", "failed"}

\* extract_chapters is running
Running == bkPc \in {"begin", "start", "loaded"}

\* the directory the input names is still there
InputFolderExists == input.at_temp => temp_dir

\* C30: every run of extract_chapters ends, with cleanup called, whether it
\* returns or raises; after a run on an EPUB file temp_extracted does not
\* exist, and an extracted folder given as input is never deleted
C30_EndsWithCleanup ==
    /\ [](RunEnded => (cleaned /\ (input.kind = "epub" => ~temp_dir)))
    /\ [](bkPc = "failed" => raised # "")
    /\ [](input.kind = "folder" => InputFolderExists)
    /\ Running ~> RunEnded

\* a run on an EPUB file has raised while the chapters were written, after
\* the archive was extracted
C30_Witness ==
    /\ bkPc = "failed" /\ raised = "OSError"
    /\ input.kind = "epub" /\ source_dir = "temp"
    /\ cleaned /\ ~temp_dir

\* a run on an EPUB file has returned
C30_ReturnedFromEpub ==
    /\ bkPc = "done" /\ raised = ""
    /\ input.kind = "epub" /\ source_dir = "temp"
    /\ cleaned /\ ~temp_dir /\ index_written

\* a run on an extracted folder at output_dir/temp_extracted has ended
C30_FolderAtTempKept ==
    /\ RunEnded /\ cleaned
    /\ input.kind = "folder" /\ input.at_temp /\ temp_dir

\* a directory at output_dir/temp_extracted that is no extracted folder is
\* removed by the cleanup after ValueError
C30_OtherDirRemoved ==
    /\ bkPc = "failed" /\ raised = "ValueError"
    /\ input.kind = "dir" /\ input.at_temp /\ ~temp_dir

====
